---- MODULE Spec2Model ----
(***************************************************************************)
(* Checkers engine of arturalkaim/damas: the board simulation helpers, the *)
(* evaluator, the AI dispatcher (src/unnamed/part_000) and the game        *)
(* orchestrator (src/sketch.js), as a state machine.                       *)
(*                                                                         *)
(* Objects are modelled with identity: `heap' is the store of Piece        *)
(* objects (address = index) and a Board is the sequence of the addresses  *)
(* in its `pieces' array.  A board VALUE (sequence of piece records) is    *)
(* what read-only code sees; View(h, b) reads it off the heap.             *)
(***************************************************************************)
EXTENDS Integers, Sequences, FiniteSets, TLC

VARIABLES
    heap,           \* store of Piece objects: sequence of piece records
    board,          \* game.board.pieces: sequence of addresses into heap
    res,            \* record of the last call made on the board and its result
    plies,          \* moves made on the board so far (tournament: games whose result was open)
    playerTurn,     \* sketch.js playerTurn
    pieceSelected,  \* sketch.js pieceSelected: address of a piece, or 0 for null
    tournament      \* the globals of tournament.js, player1Type, player2Type, aiMoveScheduled and the pending timers

vars == <<heap, board, res, plies, playerTurn, pieceSelected, tournament>>

----------------------------------------------------------------------------
(* Arithmetic helpers (Math.abs, Math.min, Math.max) *)

Abs(n) == IF n < 0 THEN -n ELSE n
Min(a, b) == IF a < b THEN a ELSE b
Max(a, b) == IF a > b THEN a ELSE b

Other(team) == IF team = 1 THEN 2 ELSE 1

----------------------------------------------------------------------------
(* Pieces and boards *)

\* new Piece(id, x, y, team)
Piece(id, x, y, team) ==
    [id |-> id, x |-> x, y |-> y, x0 |-> x, y0 |-> y, team |-> team, king |-> FALSE]

\* JavaScript null / undefined where a piece is expected
Null == [id |-> -1, x |-> -1, y |-> -1, x0 |-> -1, y0 |-> -1, team |-> 0, king |-> FALSE]

\* The pieces a board holds, read off the heap, in array order
View(h, b) == [i \in 1..Len(b) |-> h[b[i]]]

\* Array.prototype.find: first element of s satisfying Test, or Null
Find(s, Test(_)) ==
    LET hits == {i \in 1..Len(s) : Test(s[i])}
    IN  IF hits = {} THEN Null
        ELSE s[CHOOSE i \in hits : \A j \in hits : i <= j]

\* cloneBoard: a fresh Piece object per piece, fields copied
cloneBoardShared(h, b) == [heap |-> h, board |-> b]
cloneBoard(h, b) ==
    [heap  |-> h \o [i \in 1..Len(b) |->
                        [id |-> h[b[i]].id, x |-> h[b[i]].x, y |-> h[b[i]].y,
                         x0 |-> h[b[i]].x0, y0 |-> h[b[i]].y0,
                         team |-> h[b[i]].team, king |-> h[b[i]].king]],
     board |-> [i \in 1..Len(b) |-> Len(h) + i]]

----------------------------------------------------------------------------
(* Move generator *)

\* A validity test that does not look at the destination square
validJumpOntoAnySquare(piece, x, y, bv) ==
    /\ ~(x < 0 \/ x > 7 \/ y < 0 \/ y > 7)
    /\ Abs(piece.x0 - x) = Abs(piece.y0 - y)
    /\ ~(piece.x0 = x /\ piece.y0 = y)
    /\ ~(Abs(piece.x0 - x) > 2 /\ ~piece.king)
    /\ Find(bv, LAMBDA p : 2 * p.x = piece.x0 + x /\ 2 * p.y = piece.y0 + y
                           /\ p.team = piece.team) = Null
    /\ (Abs(piece.x0 - x) = 2 /\ ~piece.king) =>
          Find(bv, LAMBDA p : 2 * p.x = piece.x0 + x /\ 2 * p.y = piece.y0 + y
                              /\ p.team # piece.team) # Null

validJumpOnBoard(piece, x, y, bv) ==
    /\ ~(x < 0 \/ x > 7 \/ y < 0 \/ y > 7)
    /\ Abs(piece.x0 - x) = Abs(piece.y0 - y)
    /\ ~(piece.x0 = x /\ piece.y0 = y)
    /\ ~(Abs(piece.x0 - x) > 2 /\ ~piece.king)
    /\ Find(bv, LAMBDA p : p.x = x /\ p.y = y /\ p.id # piece.id) = Null
    \* (x0 + x) / 2 is compared without rounding: both sides doubled
    /\ Find(bv, LAMBDA p : 2 * p.x = piece.x0 + x /\ 2 * p.y = piece.y0 + y
                           /\ p.team = piece.team) = Null
    /\ (Abs(piece.x0 - x) = 2 /\ ~piece.king) =>
          Find(bv, LAMBDA p : 2 * p.x = piece.x0 + x /\ 2 * p.y = piece.y0 + y
                              /\ p.team # piece.team) # Null

\* the eight one/two-square candidates, in source order
directions ==
    << <<1, -1>>, <<2, -2>>, <<-1, -1>>, <<-2, -2>>,
       <<1, 1>>,  <<2, 2>>,  <<-1, 1>>,  <<-2, 2>> >>

\* for (i = -7; i <= 7; i++) { if (i === 0) continue; (x+i, y+i); (x+i, y-i) }
kingOffsets == <<-7, -6, -5, -4, -3, -2, -1, 1, 2, 3, 4, 5, 6, 7>>

findAvailableMovesOnBoard(piece, bv) ==
    LET x == piece.x0
        y == piece.y0
        near == [k \in 1..Len(directions) |->
                    <<x + directions[k][1], y + directions[k][2]>>]
        far  == [k \in 1..(2 * Len(kingOffsets)) |->
                    LET i == kingOffsets[(k + 1) \div 2]
                    IN  IF k % 2 = 1 THEN <<x + i, y + i>> ELSE <<x + i, y - i>>]
        ok(m) == validJumpOnBoard(piece, m[1], m[2], bv)
    IN  SelectSeq(near, ok) \o (IF piece.king THEN SelectSeq(far, ok) ELSE <<>>)

\* A capture detector that never finds a piece
pieceKilledNever(piece, x, y, bv) == Null

\* A capture detector that does not look at the team of the piece it finds
pieceKilledOfAnyTeam(piece, x, y, bv) ==
    IF Abs(piece.x0 - x) > 1
    THEN LET startx == Min(piece.x0, x)
             endx   == Max(piece.x0, x)
             starty == Min(piece.y0, y)
             endy   == Max(piece.y0, y)
             at(k)  == Find(bv, LAMBDA p : p.x = startx + k /\ p.y = starty + k)
             ks     == {k \in 1..7 : startx + k < endx /\ starty + k < endy
                                     /\ at(k) # Null}
         IN  IF ks = {} THEN Null
             ELSE at(CHOOSE k \in ks : \A j \in ks : k <= j)
    ELSE Null

pieceKilledOnBoard(piece, x, y, bv) ==
    IF Abs(piece.x0 - x) > 1
    THEN LET startx == Min(piece.x0, x)
             endx   == Max(piece.x0, x)
             starty == Min(piece.y0, y)
             endy   == Max(piece.y0, y)
             at(k)  == Find(bv, LAMBDA p : p.x = startx + k /\ p.y = starty + k
                                           /\ p.team # piece.team)
             ks     == {k \in 1..7 : startx + k < endx /\ starty + k < endy
                                     /\ at(k) # Null}
         IN  IF ks = {} THEN Null
             ELSE at(CHOOSE k \in ks : \A j \in ks : k <= j)
    ELSE Null

\* A landing that never crowns
crownNever(p) == p

\* the two crowning tests at the end of applyMoveOnBoard
crown(p) ==
    IF (p.team = 1 /\ p.y = 7) \/ (p.team = 2 /\ p.y = 0)
    THEN [p EXCEPT !.king = TRUE] ELSE p

\* applyMoveOnBoard on the object store: returns the store after the call,
\* the new board and the captured flag.  The steps are local operators so
\* that each intermediate value is computed once: c is the clone, a the
\* address of newPiece, h1 the store once newPiece.x and .y are set.
applyMoveOnBoard(h, b, piece, x, y) ==
    LET settle(h1, cb, a, killed) ==
            [heap     |-> [h1 EXCEPT ![a] = crown([h1[a] EXCEPT !.x0 = x, !.y0 = y])],
             board    |-> IF killed # Null
                          THEN SelectSeq(cb, LAMBDA q : h1[q].id # killed.id)
                          ELSE cb,
             captured |-> killed # Null]
        landed(h1, cb, a) ==
            settle(h1, cb, a, pieceKilledOnBoard(h1[a], x, y, View(h1, cb)))
        newPiece(c) ==
            CHOOSE a \in {c.board[i] : i \in 1..Len(c.board)} : c.heap[a].id = piece.id
        place(c, a) == landed([c.heap EXCEPT ![a].x = x, ![a].y = y], c.board, a)
        onClone(c) == place(c, newPiece(c))
    IN  onClone(cloneBoard(h, b))

\* applyMoveOnBoard as seen by code that only keeps the returned value
applyMove(bv, piece, x, y) ==
    LET value(r) == [board |-> View(r.heap, r.board), captured |-> r.captured]
    IN  value(applyMoveOnBoard(bv, [i \in 1..Len(bv) |-> i], piece, x, y))

isCapture(m, bv) == pieceKilledOnBoard(m.piece, m.move[1], m.move[2], bv) # Null

\* The loop of getAllMovesForTeam: every piece of the team, in board order,
\* with each of its available squares
allMoves(bv, team) ==
    LET RECURSIVE push(_, _)
        push(pieces, i) ==
            IF i > Len(pieces) THEN <<>>
            ELSE LET entries(pm) == [k \in 1..Len(pm) |-> [piece |-> pieces[i], move |-> pm[k]]]
                 IN  entries(findAvailableMovesOnBoard(pieces[i], bv)) \o push(pieces, i + 1)
    IN  push(SelectSeq(bv, LAMBDA p : p.team = team), 1)

\* The move list without the capture filter
getAllMovesUnfiltered(bv, team) == allMoves(bv, team)

getAllMovesForTeam(bv, team) ==
    LET filter(moves, captures) == IF Len(captures) > 0 THEN captures ELSE moves
        onMoves(moves) == filter(moves, SelectSeq(moves, LAMBDA m : isCapture(m, bv)))
    IN  onMoves(allMoves(bv, team))

----------------------------------------------------------------------------
(* Position evaluator.  Scores are kept in tenths of a point, so that the  *)
(* source's 0.5, 0.3 and 0.2 weights stay integers: 10000 reads 100000.    *)

\* The depth hint is <<>> when absent (depth == null) and <<d>> otherwise
terminalScore(depth) ==
    IF depth # <<>> THEN (10000 - depth[1]) * 10 ELSE 10000 * 10

isSquareSafe(bv, x, y, team) ==
    LET opponent == IF team = 1 THEN 2 ELSE 1
        jumpMoves(p) == { <<p.x + 2, p.y + 2>>, <<p.x + 2, p.y - 2>>,
                          <<p.x - 2, p.y + 2>>, <<p.x - 2, p.y - 2>> }
    IN  ~\E i \in 1..Len(bv) :
            /\ bv[i].team = opponent
            /\ \E j \in jumpMoves(bv[i]) :
                  /\ bv[i].x + j[1] = 2 * x
                  /\ bv[i].y + j[2] = 2 * y
                  /\ j[1] >= 0 /\ j[1] <= 7 /\ j[2] >= 0 /\ j[2] <= 7
                  /\ ~\E k \in 1..Len(bv) : bv[k].x = j[1] /\ bv[k].y = j[2]

\* one piece's contribution, unsigned
pieceValue(bv, piece) ==
    LET advancement == IF piece.team = 1 THEN piece.y ELSE 7 - piece.y
        material    == IF piece.king THEN 250 ELSE 100
        advance     == IF piece.king THEN 0
                       ELSE advancement * 5 + (IF advancement = 6 THEN 50 ELSE 0)
        \* (4 - |3.5 - x| - |3.5 - y|) * 0.3
        center      == ((8 - Abs(7 - 2 * piece.x) - Abs(7 - 2 * piece.y)) \div 2) * 3
        threat      == IF ~isSquareSafe(bv, piece.x, piece.y, piece.team)
                       THEN (IF piece.king THEN 150 ELSE 100) ELSE 0
    IN  material + advance + center - threat

evaluateBoard(bv, depth) ==
    LET team1Pieces == SelectSeq(bv, LAMBDA p : p.team = 1)
        team2Pieces == SelectSeq(bv, LAMBDA p : p.team = 2)
        team1Moves  == getAllMovesForTeam(bv, 1)
        team2Moves  == getAllMovesForTeam(bv, 2)
        RECURSIVE sum(_)
        sum(i) == IF i > Len(bv) THEN 0
                  ELSE (IF bv[i].team = 1 THEN 1 ELSE -1) * pieceValue(bv, bv[i])
                       + sum(i + 1)
        team1BackRank == Len(SelectSeq(team1Pieces, LAMBDA p : p.y = 0))
        team2BackRank == Len(SelectSeq(team2Pieces, LAMBDA p : p.y = 7))
    IN  IF Len(team1Pieces) = 0 THEN -terminalScore(depth)
        ELSE IF Len(team2Pieces) = 0 THEN terminalScore(depth)
        ELSE IF Len(team1Moves) = 0 THEN -terminalScore(depth)
        ELSE IF Len(team2Moves) = 0 THEN terminalScore(depth)
        ELSE sum(1)
             + (Len(team1Moves) - Len(team2Moves)) * 2
             - (IF team1BackRank < 2 THEN 30 ELSE 0)
             + (IF team2BackRank < 2 THEN 30 ELSE 0)

\* A terminal test that only counts pieces
isGameOverByPieces(bv) ==
    IF Find(bv, LAMBDA p : p.team = 1) = Null THEN [over |-> TRUE, winner |-> 2]
    ELSE IF Find(bv, LAMBDA p : p.team = 2) = Null THEN [over |-> TRUE, winner |-> 1]
    ELSE [over |-> FALSE, winner |-> 0]

\* winner is 0 for null
isGameOver(bv) ==
    LET team1Pieces == SelectSeq(bv, LAMBDA p : p.team = 1)
        team2Pieces == SelectSeq(bv, LAMBDA p : p.team = 2)
    IN  IF Len(team1Pieces) = 0 THEN [over |-> TRUE, winner |-> 2]
        ELSE IF Len(team2Pieces) = 0 THEN [over |-> TRUE, winner |-> 1]
        ELSE IF Len(getAllMovesForTeam(bv, 1)) = 0 THEN [over |-> TRUE, winner |-> 2]
        ELSE IF Len(getAllMovesForTeam(bv, 2)) = 0 THEN [over |-> TRUE, winner |-> 1]
        ELSE [over |-> FALSE, winner |-> 0]

----------------------------------------------------------------------------
(* Shared AI utilities *)

RECURSIVE countChainCaptures(_, _, _, _, _)
countChainCaptures(bv, piece, x, y, depth) ==
    LET \* the loop over captureMoves: the largest of depth + 1 and the counts
        best(nb, newPiece, captureMoves) ==
            IF Len(captureMoves) = 0 THEN depth + 1
            ELSE LET captures == {depth + 1} \cup
                        {countChainCaptures(nb, newPiece, captureMoves[i][1],
                                            captureMoves[i][2], depth + 1) :
                            i \in 1..Len(captureMoves)}
                 IN  CHOOSE c \in captures : \A d \in captures : c >= d
        further(nb, newPiece) ==
            IF newPiece = Null THEN depth + 1
            ELSE best(nb, newPiece,
                      SelectSeq(findAvailableMovesOnBoard(newPiece, nb),
                                LAMBDA m : Abs(newPiece.x0 - m[1]) = 2))
        after(result) ==
            IF ~result.captured THEN depth
            ELSE further(result.board, Find(result.board, LAMBDA p : p.id = piece.id))
    IN  after(applyMove(bv, piece, x, y))

----------------------------------------------------------------------------
(* AI algorithms.  Math.random() is an input: a policy is the SET of moves  *)
(* it can return over all random draws.  aiNoise() is uniform in            *)
(* [-7.5, 7.5); a move can reach a band around the best noisy score exactly *)
(* when its noise-free score is within the band widened by the noise range. *)

\* a {piece, move} result; NoMove is the null result
NoMove == [piece |-> Null, move |-> <<>>]
Range(s) == {s[i] : i \in 1..Len(s)}

\* AI_NOISE, in points
AI_NOISE == 15

randomAI(bv, team) ==
    LET moves == getAllMovesForTeam(bv, team)
    IN  IF Len(moves) = 0 THEN {NoMove} ELSE Range(moves)

\* sort descending, keep score >= maxScore - band: with noise added to every
\* score, move i can be kept iff score[i] > score[j] - band - AI_NOISE for all j.
\* Scores and band are given in units of 1/unit point.
withinBand(moves, score, band, unit) ==
    {moves[i] : i \in {i \in 1..Len(moves) :
        \A j \in 1..Len(moves) : score[i] > score[j] - band - AI_NOISE * unit}}

greedyAI(bv, team) ==
    LET score(m) ==
            countChainCaptures(bv, m.piece, m.move[1], m.move[2], 0) * 100
            + (IF isSquareSafe(bv, m.move[1], m.move[2], team) THEN 50 ELSE 0)
        pick(moves) ==
            IF Len(moves) = 0 THEN {NoMove}
            ELSE IF ~isCapture(moves[1], bv) THEN Range(moves)
            ELSE withinBand(moves, [i \in 1..Len(moves) |-> score(moves[i])], 0, 1)
    IN  pick(getAllMovesForTeam(bv, team))

\* friendly pieces that stand on an unsafe square of board bv
exposedPieces(bv, team) ==
    Cardinality({i \in 1..Len(bv) :
        bv[i].team = team /\ ~isSquareSafe(bv, bv[i].x, bv[i].y, team)})

\* -Infinity / Infinity of the search, beyond every score (tenths of a point)
Infinity == 10000 * 10 * 10

\* stable partition of the sort in minimax: captures first
captureFirst(moves, bv) ==
    SelectSeq(moves, LAMBDA m : isCapture(m, bv))
    \o SelectSeq(moves, LAMBDA m : ~isCapture(m, bv))

\* minimax and its two loops.  minimaxLoop is the state of a loop before
\* move i (alpha or beta as updated so far in bound, maxEval or minEval in
\* best); minimaxStep is the rest of the iteration once evalScore is known.
RECURSIVE minimax(_, _, _, _, _, _, _)
RECURSIVE minimaxLoop(_, _, _, _, _, _, _, _, _, _)
RECURSIVE minimaxStep(_, _, _, _, _, _, _, _, _, _, _)

\* A minimax that evaluates the leaf before it looks for the end of the game
minimaxLeafFirst(bv, depth, alpha, beta, maximizingPlayer, currentTeam, maxDepth) ==
    IF depth = 0 THEN evaluateBoard(bv, <<>>)
    ELSE IF isGameOver(bv).over
    THEN (IF isGameOver(bv).winner = 1 THEN (10000 - (maxDepth - depth)) * 10
          ELSE -((10000 - (maxDepth - depth)) * 10))
    ELSE minimaxLoop(bv, depth, alpha, beta, maximizingPlayer, currentTeam, maxDepth,
                     captureFirst(getAllMovesForTeam(bv, currentTeam), bv), 1,
                     IF maximizingPlayer THEN -Infinity ELSE Infinity)

minimax(bv, depth, alpha, beta, maximizingPlayer, currentTeam, maxDepth) ==
    IF isGameOver(bv).over
    THEN (IF isGameOver(bv).winner = 1 THEN (10000 - (maxDepth - depth)) * 10
          ELSE -((10000 - (maxDepth - depth)) * 10))
    ELSE IF depth = 0 THEN evaluateBoard(bv, <<>>)
    ELSE minimaxLoop(bv, depth, alpha, beta, maximizingPlayer, currentTeam, maxDepth,
                     captureFirst(getAllMovesForTeam(bv, currentTeam), bv), 1,
                     IF maximizingPlayer THEN -Infinity ELSE Infinity)

\* A loop that searches the replies with the maximizing flag unchanged
minimaxLoopSameFlag(bv, depth, alpha, beta, maximizingPlayer, currentTeam, maxDepth, moves, i, best) ==
    IF i > Len(moves) THEN best
    ELSE minimaxStep(bv, depth, alpha, beta, maximizingPlayer, currentTeam, maxDepth,
                     moves, i, best,
                     minimax(applyMove(bv, moves[i].piece, moves[i].move[1],
                                       moves[i].move[2]).board,
                             depth - 1, alpha, beta, maximizingPlayer,
                             IF currentTeam = 1 THEN 2 ELSE 1, maxDepth))

minimaxLoop(bv, depth, alpha, beta, maximizingPlayer, currentTeam, maxDepth, moves, i, best) ==
    IF i > Len(moves) THEN best
    ELSE minimaxStep(bv, depth, alpha, beta, maximizingPlayer, currentTeam, maxDepth,
                     moves, i, best,
                     minimax(applyMove(bv, moves[i].piece, moves[i].move[1],
                                       moves[i].move[2]).board,
                             depth - 1, alpha, beta, ~maximizingPlayer,
                             IF currentTeam = 1 THEN 2 ELSE 1, maxDepth))

minimaxStep(bv, depth, alpha, beta, maximizingPlayer, currentTeam, maxDepth, moves, i, best, evalScore) ==
    IF maximizingPlayer
    THEN (IF beta <= Max(alpha, evalScore) THEN Max(best, evalScore)
          ELSE minimaxLoop(bv, depth, Max(alpha, evalScore), beta, maximizingPlayer,
                           currentTeam, maxDepth, moves, i + 1, Max(best, evalScore)))
    ELSE (IF Min(beta, evalScore) <= alpha THEN Min(best, evalScore)
          ELSE minimaxLoop(bv, depth, alpha, Min(beta, evalScore), maximizingPlayer,
                           currentTeam, maxDepth, moves, i + 1, Min(best, evalScore)))

\* score of one root move of minimaxAI before the noise, signed so that the
\* best move of either team has the largest value
minimaxScore(bv, team, depth, m) ==
    (IF team = 1 THEN 1 ELSE -1)
    * minimax(applyMove(bv, m.piece, m.move[1], m.move[2]).board,
              depth - 1, -Infinity, Infinity, team # 1,
              IF team = 1 THEN 2 ELSE 1, depth)

\* the moves minimaxAI can return out of `moves': the noisy score of move i
\* beats every other one for some draw of the noise
minimaxPick(bv, team, depth, moves) ==
    IF Len(moves) = 0 THEN {NoMove}
    ELSE {[piece |-> m.piece, move |-> m.move] :
            m \in withinBand(moves,
                             [i \in 1..Len(moves) |-> minimaxScore(bv, team, depth, moves[i])],
                             0, 10)}

minimaxAI(bv, team, depth) == minimaxPick(bv, team, depth, getAllMovesForTeam(bv, team))

\* advancement of a destination row for a team
advancementOf(team, y) == IF team = 1 THEN y ELSE 7 - y

\* centerX + centerY = (4 - |3.5 - x|) + (4 - |3.5 - y|), always an integer
centerSum(x, y) == (16 - Abs(7 - 2 * x) - Abs(7 - 2 * y)) \div 2

\* scores in half points; threshold = maxScore > 0 ? maxScore * 0.9 : maxScore - 10
superGreedyAI(bv, team) ==
    LET total(m, totalCaptures, safe, exposed) ==
            2 * (totalCaptures * 200 + (IF safe THEN 100 ELSE -60)
                 + (IF ~m.piece.king THEN advancementOf(team, m.move[2]) ELSE 0) * 10)
            + centerSum(m.move[1], m.move[2])
            - 2 * exposed * 120
        score2(m) ==
            total(m,
                  IF isCapture(m, bv)
                  THEN countChainCaptures(bv, m.piece, m.move[1], m.move[2], 0) ELSE 0,
                  isSquareSafe(bv, m.move[1], m.move[2], team),
                  exposedPieces(applyMove(bv, m.piece, m.move[1], m.move[2]).board, team))
        \* in twentieths of a point: the lowest best score the others allow,
        \* and the threshold it gives
        lowMax(s, i) == 10 * s[CHOOSE j \in (1..Len(s)) \ {i} :
                                 \A k \in (1..Len(s)) \ {i} : s[j] >= s[k]]
                        - 10 * AI_NOISE
        threshold(mx) == IF mx > 0 THEN (mx * 9) \div 10 ELSE mx - 10 * 20
        can(s, i) == Len(s) = 1 \/ 10 * s[i] + 10 * AI_NOISE > threshold(lowMax(s, i))
        choose(moves, s) == {moves[i] : i \in {i \in 1..Len(moves) : can(s, i)}}
        pick(moves) ==
            IF Len(moves) = 0 THEN {NoMove}
            ELSE choose(moves, [i \in 1..Len(moves) |-> score2(moves[i])])
    IN  pick(getAllMovesForTeam(bv, team))

defensiveAI(bv, team) ==
    LET total(m, currentlyThreatened, destinationSafe, exposed, capture) ==
            (IF currentlyThreatened /\ destinationSafe THEN 500 ELSE 0)
            + (IF destinationSafe THEN 200 ELSE -300)
            - exposed * 150
            + (IF capture /\ destinationSafe THEN 150 ELSE 0)
            + (IF team = 1 THEN 7 - m.move[2] ELSE m.move[2]) * 10
        score(m) ==
            total(m,
                  ~isSquareSafe(bv, m.piece.x, m.piece.y, team),
                  isSquareSafe(bv, m.move[1], m.move[2], team),
                  exposedPieces(applyMove(bv, m.piece, m.move[1], m.move[2]).board, team),
                  isCapture(m, bv))
        pick(moves) ==
            IF Len(moves) = 0 THEN {NoMove}
            ELSE withinBand(moves, [i \in 1..Len(moves) |-> score(moves[i])], 50, 1)
    IN  pick(getAllMovesForTeam(bv, team))

material(bv, mine, team) ==
    LET RECURSIVE sum(_)
        sum(i) == IF i > Len(bv) THEN 0
                  ELSE (IF (bv[i].team = team) = mine
                        THEN (IF bv[i].king THEN 25 ELSE 10) ELSE 0) + sum(i + 1)
    IN  sum(1)

adaptiveAI(bv, team) ==
    LET exposurePenalty == [aggressive |-> 80, positional |-> 100, defensive |-> 130]
        strategyOf(advantage) ==
            IF advantage >= 20 THEN "defensive"
            ELSE IF advantage <= -20 THEN "aggressive" ELSE "positional"
        total(strategy, m, capture, safe, chainCaptures, exposed) ==
            (IF strategy = "aggressive"
             THEN chainCaptures * 200 + (IF capture THEN 150 ELSE 0)
                  + advancementOf(team, m.move[2]) * 15 + (IF safe THEN 80 ELSE -60)
             ELSE IF strategy = "defensive"
             THEN (IF safe THEN 300 ELSE -200)
                  + (IF capture /\ safe THEN 150 ELSE 0)
                  - advancementOf(team, m.move[2]) * 5
                  + (7 - advancementOf(team, m.move[2])) * 10
             ELSE chainCaptures * 100 + (IF safe THEN 150 ELSE -100)
                  + centerSum(m.move[1], m.move[2]) * 15
                  + advancementOf(team, m.move[2]) * 10)
            - exposed * exposurePenalty[strategy]
        score(strategy, m) ==
            total(strategy, m,
                  isCapture(m, bv),
                  isSquareSafe(bv, m.move[1], m.move[2], team),
                  IF isCapture(m, bv)
                  THEN countChainCaptures(bv, m.piece, m.move[1], m.move[2], 0) ELSE 0,
                  exposedPieces(applyMove(bv, m.piece, m.move[1], m.move[2]).board, team))
        pick(strategy, moves) ==
            IF Len(moves) = 0 THEN {NoMove}
            ELSE withinBand(moves, [i \in 1..Len(moves) |-> score(strategy, moves[i])],
                            20, 1)
    IN  pick(strategyOf(material(bv, TRUE, team) - material(bv, FALSE, team)),
             getAllMovesForTeam(bv, team))

\* scores in 1/n points, n the number of friendly pieces (avgY = sum / n)
positionalAI(bv, team) ==
    LET opponent == IF team = 1 THEN 2 ELSE 1
        backRank == IF team = 1 THEN 0 ELSE 7
        cohesion(myPieces) ==
            Cardinality({pq \in (1..Len(myPieces)) \X (1..Len(myPieces)) :
                /\ myPieces[pq[1]].id # myPieces[pq[2]].id
                /\ Abs(myPieces[pq[1]].x - myPieces[pq[2]].x) <= 1
                /\ Abs(myPieces[pq[1]].y - myPieces[pq[2]].y) <= 1})
        RECURSIVE sumY(_, _)
        sumY(myPieces, k) ==
            IF k > Len(myPieces) THEN 0
            ELSE advancementOf(team, myPieces[k].y) + sumY(myPieces, k + 1)
        backRankPieces(myPieces) == Len(SelectSeq(myPieces, LAMBDA p : p.y = backRank))
        total(m, myPieces, ys, oppMoves, safe, exposed, capture) ==
            Len(myPieces) *
              ( cohesion(myPieces) * 25
              + centerSum(m.move[1], m.move[2]) * 15
              - (IF m.piece.y = backRank /\ m.move[2] # backRank
                    /\ backRankPieces(myPieces) <= 2
                 THEN 80 ELSE 0)
              - oppMoves * 8
              + (IF safe THEN 60 ELSE -120)
              - exposed * 60
              + (IF capture /\ safe THEN 150 ELSE IF capture /\ ~safe THEN 20 ELSE 0) )
            + ys * 10
            - Abs(Len(myPieces) * advancementOf(team, m.move[2]) - ys) * 20
        onPieces(m, nb, myPieces) ==
            total(m, myPieces, sumY(myPieces, 1),
                  Len(getAllMovesForTeam(nb, opponent)),
                  isSquareSafe(nb, m.move[1], m.move[2], team),
                  exposedPieces(nb, team),
                  isCapture(m, bv))
        onBoard(m, nb) == onPieces(m, nb, SelectSeq(nb, LAMBDA p : p.team = team))
        scoreN(m) == onBoard(m, applyMove(bv, m.piece, m.move[1], m.move[2]).board)
        pick(moves, n) ==
            IF Len(moves) = 0 THEN {NoMove}
            ELSE withinBand(moves, [i \in 1..Len(moves) |-> scoreN(moves[i])], 30 * n, n)
    IN  pick(getAllMovesForTeam(bv, team), Len(SelectSeq(bv, LAMBDA p : p.team = team)))

\* A search that always runs its iteration loop
mctsAIAlwaysIterates(bv, team, iterations) ==
    LET pick(moves) ==
            IF Len(moves) = 0 THEN {[piece |-> Null, move |-> <<>>, ran |-> iterations]}
            ELSE {[piece |-> m.piece, move |-> m.move, ran |-> iterations] : m \in Range(moves)}
    IN  pick(getAllMovesForTeam(bv, team))

\* mctsAI, summarised per call: the early returns are exact; after the
\* iteration loop the most-visited root child is one of the root's moves
\* (which one depends on the rollouts' random draws).  `ran' counts the
\* iterations of the loop that were run.
mctsAI(bv, team, iterations) ==
    LET moves == getAllMovesForTeam(bv, team)
    IN  IF isGameOver(bv).over THEN {[piece |-> Null, move |-> <<>>, ran |-> 0]}
        ELSE IF Len(moves) = 0 THEN {[piece |-> Null, move |-> <<>>, ran |-> 0]}
        ELSE IF Len(moves) = 1
        THEN {[piece |-> moves[1].piece, move |-> moves[1].move, ran |-> 0]}
        ELSE IF iterations = 0 THEN {[piece |-> Null, move |-> <<>>, ran |-> 0]}
        ELSE {[piece |-> Find(bv, LAMBDA p : p.id = m.piece.id), move |-> m.move,
               ran |-> iterations] : m \in Range(moves)}

----------------------------------------------------------------------------
(* The MCTS tree.  `nodes' is the sequence of the MCTSNode objects in       *)
(* creation order, a node being named by its index and null by 0; the root  *)
(* is node 1.  Boards are held by value.  Rollout results and win totals    *)
(* are kept in halves: 0, 1, 2 for 0, 0.5, 1.                               *)

\* constructor: untriedMoves is <<>> for null and <<list>> once computed
MCTSNode(bv, team, parent, move, piece) ==
    [board |-> bv, team |-> team, parent |-> parent, move |-> move, piece |-> piece,
     children |-> <<>>, visits |-> 0, wins |-> 0, untriedMoves |-> <<>>]

\* getUntriedMoves: the tree after the call; the list is then
\* nodes[n].untriedMoves[1]
getUntriedMoves(nodes, n) ==
    IF nodes[n].untriedMoves = <<>>
    THEN [nodes EXCEPT ![n].untriedMoves =
                           <<getAllMovesForTeam(nodes[n].board, nodes[n].team)>>]
    ELSE nodes

isFullyExpanded(nodes, n) == Len(getUntriedMoves(nodes, n)[n].untriedMoves[1]) = 0
isTerminal(nodes, n) == isGameOver(nodes[n].board).over

\* Math.log(1..8) and Math.sqrt, in ten-thousandths
Ln == <<0, 6931, 10986, 13863, 16094, 17918, 19459, 20794>>
RECURSIVE sqrtIn(_, _, _)
sqrtIn(n, lo, hi) ==
    IF lo = hi THEN lo
    ELSE IF ((lo + hi + 1) \div 2) * ((lo + hi + 1) \div 2) <= n
    THEN sqrtIn(n, (lo + hi + 1) \div 2, hi)
    ELSE sqrtIn(n, lo, ((lo + hi + 1) \div 2) - 1)

\* ucb1 with explorationParam 1.41, in ten-thousandths
ucb1(nodes, c) ==
    IF nodes[c].visits = 0 THEN Infinity * 10
    ELSE ((nodes[c].wins * 5000) \div nodes[c].visits)
         + ((141 * sqrtIn((Ln[nodes[nodes[c].parent].visits] * 10000) \div nodes[c].visits,
                          0, 16384)) \div 100)

\* selectChild: the first child of the largest ucb1, 0 without children
selectChild(nodes, n) ==
    LET cs == nodes[n].children
        first(best) == CHOOSE i \in best : \A j \in best : i <= j
    IN  IF Len(cs) = 0 THEN 0
        ELSE cs[first({i \in 1..Len(cs) :
                          \A j \in 1..Len(cs) : ucb1(nodes, cs[j]) <= ucb1(nodes, cs[i])})]

\* An expansion that leaves the side to move with the parent's team
expandSameSide(nodes, n, idx) ==
    LET grow(ns, um) ==
            IF Len(um) = 0 THEN [nodes |-> ns, node |-> 0]
            ELSE [nodes |-> Append([ns EXCEPT
                                       ![n].untriedMoves =
                                           <<SubSeq(um, 1, idx - 1) \o SubSeq(um, idx + 1, Len(um))>>,
                                       ![n].children = Append(@, Len(ns) + 1)],
                                   MCTSNode(applyMove(ns[n].board, um[idx].piece,
                                                      um[idx].move[1], um[idx].move[2]).board,
                                            ns[n].team, n, um[idx].move, um[idx].piece)),
                  node  |-> Len(ns) + 1]
        onTree(ns) == grow(ns, ns[n].untriedMoves[1])
    IN  onTree(getUntriedMoves(nodes, n))

\* expand, idx being the random index drawn (from 1): the tree after the
\* call and the child returned
expand(nodes, n, idx) ==
    LET grow(ns, um) ==
            IF Len(um) = 0 THEN [nodes |-> ns, node |-> 0]
            ELSE [nodes |-> Append([ns EXCEPT
                                       ![n].untriedMoves =
                                           <<SubSeq(um, 1, idx - 1) \o SubSeq(um, idx + 1, Len(um))>>,
                                       ![n].children = Append(@, Len(ns) + 1)],
                                   MCTSNode(applyMove(ns[n].board, um[idx].piece,
                                                      um[idx].move[1], um[idx].move[2]).board,
                                            IF ns[n].team = 1 THEN 2 ELSE 1,
                                            n, um[idx].move, um[idx].piece)),
                  node  |-> Len(ns) + 1]
        onTree(ns) == grow(ns, ns[n].untriedMoves[1])
    IN  onTree(getUntriedMoves(nodes, n))

\* A backpropagation that stops at the simulated node
mctsBackpropagateLeafOnly(nodes, node, result, rootTeam) ==
    IF node = 0 THEN nodes
    ELSE [nodes EXCEPT ![node].visits = @ + 1,
                       ![node].wins = @ + (IF (IF nodes[node].parent # 0
                                               THEN nodes[nodes[node].parent].team
                                               ELSE rootTeam) = 1
                                           THEN result ELSE 2 - result)]

\* mctsBackpropagate: the tree after the call
RECURSIVE mctsBackpropagate(_, _, _, _)
mctsBackpropagate(nodes, node, result, rootTeam) ==
    IF node = 0 THEN nodes
    ELSE mctsBackpropagate(
             [nodes EXCEPT ![node].visits = @ + 1,
                           ![node].wins = @ + (IF (IF nodes[node].parent # 0
                                                   THEN nodes[nodes[node].parent].team
                                                   ELSE rootTeam) = 1
                                               THEN result ELSE 2 - result)],
             nodes[node].parent, result, rootTeam)

\* the selection loop of mctsAI from node n: the tree and the node it stops at
RECURSIVE mctsSelect(_, _)
mctsSelect(nodes, n) ==
    IF isTerminal(nodes, n) THEN [nodes |-> nodes, node |-> n]
    ELSE IF isFullyExpanded(nodes, n) /\ Len(nodes[n].children) > 0
    THEN mctsSelect(getUntriedMoves(nodes, n), selectChild(getUntriedMoves(nodes, n), n))
    ELSE [nodes |-> getUntriedMoves(nodes, n), node |-> n]

\* the final loop of mctsAI: the first root child of the largest visit count,
\* 0 for null
bestChild(nodes) ==
    LET cs == nodes[1].children
        first(best) == CHOOSE i \in best : \A j \in best : i <= j
    IN  IF Len(cs) = 0 THEN 0
        ELSE cs[first({i \in 1..Len(cs) :
                          \A j \in 1..Len(cs) : nodes[cs[j]].visits <= nodes[cs[i]].visits})]

\* the values mctsSimulate(node.board, node.team) can return: which of them
\* comes out is decided by up to 100 random moves
rolloutOf(bv, team) == {0, 1, 2}

----------------------------------------------------------------------------
(* AI move dispatcher *)

AI_TYPES == <<"random", "greedy", "super_greedy", "defensive",
              "adaptive", "minimax", "mcts", "positional">>

\* default arguments of minimaxAI and mctsAI
minimaxDepth   == 4
mctsIterations == 1000

\* the results fn(game.board, team) can give
dispatch(playerType, bv, team) ==
    CASE playerType = "random"       -> randomAI(bv, team)
      [] playerType = "greedy"       -> greedyAI(bv, team)
      [] playerType = "super_greedy" -> superGreedyAI(bv, team)
      [] playerType = "defensive"    -> defensiveAI(bv, team)
      [] playerType = "adaptive"     -> adaptiveAI(bv, team)
      [] playerType = "minimax"      -> minimaxAI(bv, team, minimaxDepth)
      [] playerType = "mcts"         ->
            {[piece |-> r.piece, move |-> r.move] :
                r \in mctsAI(bv, team, mctsIterations)}
      [] playerType = "positional"   -> positionalAI(bv, team)
      [] OTHER                       -> {NoMove}

\* getAIMove(playerType, team) on game.board = bv: the set of possible results
getAIMove(playerType, team, bv) ==
    LET enforce(result) ==
            IF result = NoMove THEN {NoMove}
            ELSE IF ~isCapture(result, bv)
            THEN LET captures == getAllMovesForTeam(bv, team)
                 IN  IF Len(captures) > 0 /\ isCapture(captures[1], bv)
                     THEN Range(captures) ELSE {result}
            ELSE {result}
    IN  UNION {enforce(result) : result \in dispatch(playerType, bv, team)}

\* The moves on which a policy calls applyMoveOnBoard (directly, through
\* countChainCaptures or through MCTSNode.expand) with the board it was given
\* as the board argument: none for randomAI and on mctsAI's early returns,
\* every move of getAllMovesForTeam otherwise.  Every deeper call is made on
\* a board an earlier call returned.
rootCalls(playerType, bv, team) ==
    LET among(moves) ==
            IF playerType = "random" THEN <<>>
            ELSE IF playerType = "mcts" /\ (isGameOver(bv).over \/ Len(moves) <= 1) THEN <<>>
            ELSE IF playerType \in Range(AI_TYPES) THEN moves
            ELSE <<>>
    IN  among(getAllMovesForTeam(bv, team))

\* the object store after applyMoveOnBoard was called on board b with each of
\* the moves from the i-th on
RECURSIVE storeAfterCalls(_, _, _, _)
storeAfterCalls(h, b, moves, i) ==
    IF i > Len(moves) THEN h
    ELSE storeAfterCalls(applyMoveOnBoard(h, b, moves[i].piece, moves[i].move[1],
                                          moves[i].move[2]).heap,
                         b, moves, i + 1)

\* getAIMove's effect on the object store holding game.board: the objects that
\* existed before the call, as the policy's calls left them (the boards made
\* during the call are dropped when it returns)
getAIMoveStore(playerType, team, h, b) ==
    SubSeq(storeAfterCalls(h, b, rootCalls(playerType, View(h, b), team), 1), 1, Len(h))

----------------------------------------------------------------------------
(* tournament.js: the orchestration state and the functions that change   *)
(* it.  The state is one record t whose fields are the globals; null is   *)
(* "null"; points are counted in halves; the moves field of a log entry   *)
(* and the scroll offset of the log view are left out.  t.timers holds    *)
(* the callbacks passed to setTimeout that have not run yet.              *)

PLAYER_HUMAN == "human"

gamesPerMatchup == 2

BRACKET_SEEDS == <<"mcts", "minimax", "adaptive", "positional",
                   "super_greedy", "defensive", "greedy", "random">>

MAX_TOURNAMENT_MOVES == 500

\* the globals as the scripts declare them
NoTournament ==
    [tournamentMode |-> "null", tournamentResults |-> <<>>,
     tournamentMatchups |-> <<>>, currentMatchup |-> 0, currentGameInMatchup |-> 0,
     tournamentMoveCount |-> 0,
     tournamentGameActive |-> FALSE, tournamentGameLog |-> <<>>,
     bracketRounds |-> <<>>, bracketCurrentRound |-> 0, bracketCurrentMatch |-> 0,
     bracketCurrentGame |-> 0, bracketMatchScores |-> <<0, 0>>,
     player1Type |-> PLAYER_HUMAN, player2Type |-> PLAYER_HUMAN, timers |-> <<>>,
     aiMoveScheduled |-> FALSE, aiTimers |-> <<>>]

\* setTimeout(callback, delay)
setTimeout(t, callback) == [t EXCEPT !.timers = Append(@, callback)]

initTournament(t) ==
    LET n == Len(AI_TYPES)
        pairs == [k \in 1..(n * n) |-> <<((k - 1) \div n) + 1, ((k - 1) % n) + 1>>]
        above == SelectSeq(pairs, LAMBDA q : q[1] < q[2])
    IN  [t EXCEPT !.tournamentResults =
                      [ai \in Range(AI_TYPES) |->
                          [wins |-> 0, losses |-> 0, draws |-> 0, points |-> 0]],
                  !.tournamentMatchups =
                      [k \in 1..Len(above) |-> <<AI_TYPES[above[k][1]], AI_TYPES[above[k][2]]>>],
                  !.tournamentGameLog = <<>>,
                  !.bracketRounds = <<>>,
                  !.currentMatchup = 0,
                  !.currentGameInMatchup = 0]

\* A runTournamentGame that seats the two AIs the same way in every game
runTournamentGameSameSides(t) ==
    IF t.tournamentMode = "null" THEN t
    ELSE [t EXCEPT !.tournamentGameActive = TRUE,
                   !.player1Type = t.tournamentMatchups[t.currentMatchup + 1][1],
                   !.player2Type = t.tournamentMatchups[t.currentMatchup + 1][2],
                   !.tournamentMoveCount = 0]

\* runTournamentGame up to its call of resetGame
runTournamentGame(t) ==
    IF t.tournamentMode = "null" THEN t
    ELSE LET matchup == t.tournamentMatchups[t.currentMatchup + 1]
         IN  [t EXCEPT !.tournamentGameActive = TRUE,
                       !.player1Type = IF t.currentGameInMatchup = 0
                                       THEN matchup[1] ELSE matchup[2],
                       !.player2Type = IF t.currentGameInMatchup = 0
                                       THEN matchup[2] ELSE matchup[1],
                       !.tournamentMoveCount = 0]

finishTournament(t) ==
    [t EXCEPT !.tournamentMode = "null",
              !.player1Type = PLAYER_HUMAN,
              !.player2Type = PLAYER_HUMAN]

\* A tally that credits the winner and forgets the loser's loss
tallyWinnerOnly(results, p1Type, p2Type, winner) ==
    IF winner = 0
    THEN [results EXCEPT ![p1Type].draws = @ + 1, ![p1Type].points = @ + 1,
                         ![p2Type].draws = @ + 1, ![p2Type].points = @ + 1]
    ELSE IF winner = 1
    THEN [results EXCEPT ![p1Type].wins = @ + 1, ![p1Type].points = @ + 2]
    ELSE [results EXCEPT ![p2Type].wins = @ + 1, ![p2Type].points = @ + 2]

\* the three branches of recordTournamentResult that update
\* tournamentResults; points in halves
tally(results, p1Type, p2Type, winner) ==
    IF winner = 0
    THEN [results EXCEPT ![p1Type].draws = @ + 1, ![p1Type].points = @ + 1,
                         ![p2Type].draws = @ + 1, ![p2Type].points = @ + 1]
    ELSE IF winner = 1
    THEN [results EXCEPT ![p1Type].wins = @ + 1, ![p1Type].points = @ + 2,
                         ![p2Type].losses = @ + 1]
    ELSE [results EXCEPT ![p2Type].wins = @ + 1, ![p2Type].points = @ + 2,
                         ![p1Type].losses = @ + 1]

recordTournamentResult(t, winner) ==
    LET matchup == t.tournamentMatchups[t.currentMatchup + 1]
        p1Type  == IF t.currentGameInMatchup = 0 THEN matchup[1] ELSE matchup[2]
        p2Type  == IF t.currentGameInMatchup = 0 THEN matchup[2] ELSE matchup[1]
        over    == t.currentGameInMatchup + 1 >= gamesPerMatchup
        next(t1) ==
            IF t1.currentMatchup >= Len(t1.tournamentMatchups)
            THEN finishTournament(t1)
            ELSE setTimeout(t1, "runTournamentGame")
    IN  next([t EXCEPT
                !.tournamentGameActive = FALSE,
                !.tournamentGameLog = Append(@, [p1 |-> p1Type, p2 |-> p2Type,
                                                 winner |-> winner,
                                                 moves |-> t.tournamentMoveCount]),
                !.tournamentResults = tally(@, p1Type, p2Type, winner),
                !.currentGameInMatchup = IF over THEN 0 ELSE @ + 1,
                !.currentMatchup = IF over THEN @ + 1 ELSE @])

\* startRoundRobinTournament up to the resetGame of runTournamentGame
startRoundRobinUnguarded(t) ==
    runTournamentGame(initTournament([t EXCEPT !.tournamentMode = "round_robin"]))

startRoundRobinTournament(t) ==
    IF t.tournamentMode # "null" THEN t
    ELSE runTournamentGame(initTournament([t EXCEPT !.tournamentMode = "round_robin"]))

\* the Fisher-Yates loop of initBracketTournament: for i from the last index
\* down to 1, swap shuffled[i] and shuffled[j] with j = draws[i], the value
\* Math.floor(Math.random() * (i + 1)) took (indices from 0)
RECURSIVE shuffleFrom(_, _, _)
shuffleFrom(shuffled, i, draws) ==
    IF i <= 0 THEN shuffled
    ELSE shuffleFrom([shuffled EXCEPT ![i + 1] = shuffled[draws[i] + 1],
                                      ![draws[i] + 1] = shuffled[i + 1]],
                     i - 1, draws)

pendingMatch(player1, player2) ==
    [player1 |-> player1, player2 |-> player2, winner |-> "null",
     scores |-> <<0, 0>>, status |-> "pending"]

initBracketTournament(t, draws) ==
    LET rounds(shuffled) ==
            << <<pendingMatch(shuffled[1], shuffled[2]), pendingMatch(shuffled[3], shuffled[4]),
                 pendingMatch(shuffled[5], shuffled[6]), pendingMatch(shuffled[7], shuffled[8])>>,
               <<pendingMatch("null", "null"), pendingMatch("null", "null")>>,
               <<pendingMatch("null", "null")>> >>
    IN  [t EXCEPT !.tournamentGameLog = <<>>,
                  !.bracketRounds = rounds(shuffleFrom(BRACKET_SEEDS, Len(BRACKET_SEEDS) - 1, draws)),
                  !.bracketCurrentRound = 0,
                  !.bracketCurrentMatch = 0,
                  !.bracketCurrentGame = 0,
                  !.bracketMatchScores = <<0, 0>>]

finishBracketTournament(t) ==
    [t EXCEPT !.tournamentMode = "null",
              !.player1Type = PLAYER_HUMAN,
              !.player2Type = PLAYER_HUMAN]

\* An advance that seats the winner of the odd match as player1 and the
\* winner of the even match as player2
advanceBracketWinnersCrossed(t) ==
    LET r == t.bracketCurrentRound + 1
    IN  IF r + 1 > Len(t.bracketRounds) THEN t
        ELSE [t EXCEPT !.bracketRounds[r + 1] =
                 [k \in 1..Len(@) |->
                     [@[k] EXCEPT !.player1 = t.bracketRounds[r][2 * k].winner,
                                  !.player2 = t.bracketRounds[r][2 * k - 1].winner]]]

advanceBracketWinners(t) ==
    LET r == t.bracketCurrentRound + 1
    IN  IF r + 1 > Len(t.bracketRounds) THEN t
        ELSE [t EXCEPT !.bracketRounds[r + 1] =
                 [k \in 1..Len(@) |->
                     [@[k] EXCEPT !.player1 = t.bracketRounds[r][2 * k - 1].winner,
                                  !.player2 = t.bracketRounds[r][2 * k].winner]]]

\* runBracketGame up to its call of resetGame
runBracketGame(t) ==
    IF t.tournamentMode # "bracket" THEN t
    ELSE LET match == t.bracketRounds[t.bracketCurrentRound + 1][t.bracketCurrentMatch + 1]
         IN  [t EXCEPT !.tournamentGameActive = TRUE,
                       !.player1Type = IF t.bracketCurrentGame % 2 = 0
                                       THEN match.player1 ELSE match.player2,
                       !.player2Type = IF t.bracketCurrentGame % 2 = 0
                                       THEN match.player2 ELSE match.player1,
                       !.tournamentMoveCount = 0]

\* the two nested while loops of startNextBracketMatch
RECURSIVE nextBracketMatch(_)
nextBracketMatch(t) ==
    IF t.bracketCurrentRound < Len(t.bracketRounds)
    THEN IF t.bracketCurrentMatch < Len(t.bracketRounds[t.bracketCurrentRound + 1])
         THEN LET match == t.bracketRounds[t.bracketCurrentRound + 1][t.bracketCurrentMatch + 1]
              IN  IF match.status = "pending" /\ match.player1 # "null" /\ match.player2 # "null"
                  THEN runBracketGame(
                           [t EXCEPT !.bracketRounds[t.bracketCurrentRound + 1]
                                                    [t.bracketCurrentMatch + 1].status = "active",
                                     !.bracketCurrentGame = 0,
                                     !.bracketMatchScores = <<0, 0>>])
                  ELSE nextBracketMatch([t EXCEPT !.bracketCurrentMatch = @ + 1])
         ELSE nextBracketMatch([advanceBracketWinners(t) EXCEPT
                                   !.bracketCurrentRound = @ + 1,
                                   !.bracketCurrentMatch = 0])
    ELSE finishBracketTournament(t)

startNextBracketMatch(t) ==
    IF t.tournamentMode # "bracket" THEN t ELSE nextBracketMatch(t)

\* A rule that never plays a tiebreaker: after two games the match is
\* over, player1 advancing on level scores
decideWithoutTiebreaker(games, scores) ==
    IF games >= 2
    THEN [complete |-> TRUE, winner |-> IF scores[1] >= scores[2] THEN 1 ELSE 2]
    ELSE [complete |-> FALSE, winner |-> 0]

\* A rule that gives a match level after the tiebreaker to player2
decideLevelToSecond(games, scores) ==
    IF games >= 2 /\ scores[1] # scores[2]
    THEN [complete |-> TRUE, winner |-> IF scores[1] > scores[2] THEN 1 ELSE 2]
    ELSE IF games >= 2 /\ games = 2
    THEN [complete |-> FALSE, winner |-> 0]
    ELSE IF games >= 3
    THEN [complete |-> TRUE, winner |-> IF scores[1] > scores[2] THEN 1 ELSE 2]
    ELSE [complete |-> FALSE, winner |-> 0]

\* the end of recordBracketResult, once bracketCurrentGame (games) was
\* incremented: whether the match is complete and which player won it
decide(games, scores) ==
    IF games >= 2 /\ scores[1] # scores[2]
    THEN [complete |-> TRUE, winner |-> IF scores[1] > scores[2] THEN 1 ELSE 2]
    ELSE IF games >= 2 /\ games = 2
    THEN [complete |-> FALSE, winner |-> 0]
    ELSE IF games >= 3
    THEN [complete |-> TRUE, winner |-> IF scores[1] >= scores[2] THEN 1 ELSE 2]
    ELSE [complete |-> FALSE, winner |-> 0]

recordBracketResult(t, winner) ==
    LET r == t.bracketCurrentRound + 1
        m == t.bracketCurrentMatch + 1
        match == t.bracketRounds[r][m]
        even == t.bracketCurrentGame % 2 = 0
        matchWinner == IF winner = 0 THEN "undefined"
                       ELSE IF even THEN (IF winner = 1 THEN match.player1 ELSE match.player2)
                       ELSE (IF winner = 1 THEN match.player2 ELSE match.player1)
        scores == IF matchWinner = match.player1
                  THEN [t.bracketMatchScores EXCEPT ![1] = @ + 1]
                  ELSE IF matchWinner = match.player2
                  THEN [t.bracketMatchScores EXCEPT ![2] = @ + 1]
                  ELSE t.bracketMatchScores
        next(t1, d) ==
            IF d.complete
            THEN setTimeout([t1 EXCEPT !.bracketRounds[r][m].winner =
                                           IF d.winner = 1 THEN match.player1 ELSE match.player2,
                                       !.bracketRounds[r][m].status = "complete",
                                       !.bracketCurrentMatch = @ + 1],
                            "startNextBracketMatch")
            ELSE setTimeout(t1, "runBracketGame")
    IN  next([t EXCEPT
                !.tournamentGameActive = FALSE,
                !.tournamentGameLog = Append(@, [p1 |-> IF even THEN match.player1 ELSE match.player2,
                                                 p2 |-> IF even THEN match.player2 ELSE match.player1,
                                                 winner |-> winner,
                                                 moves |-> t.tournamentMoveCount]),
                !.bracketMatchScores = scores,
                !.bracketRounds[r][m].scores = scores,
                !.bracketCurrentGame = @ + 1],
             decide(t.bracketCurrentGame + 1, scores))

\* startBracketTournament up to the resetGame of runBracketGame
startBracketTournament(t, draws) ==
    IF t.tournamentMode # "null" THEN t
    ELSE startNextBracketMatch(initBracketTournament([t EXCEPT !.tournamentMode = "bracket"],
                                                     draws))

\* An end of game in which the side that cannot move wins
endOfGameMoverWins(bv, turn, count) ==
    IF Len(SelectSeq(bv, LAMBDA p : p.team = 1)) = 0 THEN 2
    ELSE IF Len(SelectSeq(bv, LAMBDA p : p.team = 2)) = 0 THEN 1
    ELSE IF Len(getAllMovesForTeam(bv, turn)) = 0 THEN turn
    ELSE IF count >= MAX_TOURNAMENT_MOVES THEN 0
    ELSE -1

\* the end checks, turn being playerTurn: the globals after the call and the
\* value returned.
\* endOfGame is what follows tournamentMoveCount++ in both of them: the
\* winner that is recorded, or -1 when the check returns false
endOfGame(bv, turn, count) ==
    IF Len(SelectSeq(bv, LAMBDA p : p.team = 1)) = 0 THEN 2
    ELSE IF Len(SelectSeq(bv, LAMBDA p : p.team = 2)) = 0 THEN 1
    ELSE IF Len(getAllMovesForTeam(bv, turn)) = 0 THEN (IF turn = 1 THEN 2 ELSE 1)
    ELSE IF count >= MAX_TOURNAMENT_MOVES THEN 0
    ELSE -1

checkTournamentGameEnd(t, bv, turn) ==
    IF t.tournamentMode = "null" THEN [t |-> t, returned |-> FALSE]
    ELSE IF endOfGame(bv, turn, t.tournamentMoveCount + 1) = -1
    THEN [t |-> [t EXCEPT !.tournamentMoveCount = @ + 1], returned |-> FALSE]
    ELSE [t |-> recordTournamentResult([t EXCEPT !.tournamentMoveCount = @ + 1],
                                       endOfGame(bv, turn, t.tournamentMoveCount + 1)),
          returned |-> TRUE]

checkBracketGameEnd(t, bv, turn) ==
    IF t.tournamentMode # "bracket" THEN [t |-> t, returned |-> FALSE]
    ELSE IF endOfGame(bv, turn, t.tournamentMoveCount + 1) = -1
    THEN [t |-> [t EXCEPT !.tournamentMoveCount = @ + 1], returned |-> FALSE]
    ELSE [t |-> recordBracketResult([t EXCEPT !.tournamentMoveCount = @ + 1],
                                    endOfGame(bv, turn, t.tournamentMoveCount + 1)),
          returned |-> TRUE]

----------------------------------------------------------------------------
(* Boards the calls are made on *)

\* number of pieces on a drawn board
MaxPieces == 3

\* squares the drawn pieces stand on: the long diagonal (both promotion
\* corners) and two squares off it
SeedSquares ==
    { <<0, 0>>, <<1, 1>>, <<2, 2>>, <<3, 3>>, <<4, 4>>, <<5, 5>>, <<6, 6>>, <<7, 7>>,
      <<0, 4>>, <<2, 4>> }

\* squares on which a drawn piece may already be a king
KingSquares == { <<3, 3>>, <<0, 4>>, <<6, 6>> }

\* the squares of S in row-major order
RECURSIVE RowMajor(_)
RowMajor(S) ==
    IF S = {} THEN <<>>
    ELSE LET first == CHOOSE q \in S : \A r \in S : q[2] * 8 + q[1] <= r[2] * 8 + r[1]
         IN  <<first>> \o RowMajor(S \ {first})

\* the pieces of a drawn board: ids count up from 0 as in setupGame
DrawnBoard(S, kind) ==
    LET sq == RowMajor(S)
    IN  [i \in 1..Len(sq) |->
            [Piece(i - 1, sq[i][1], sq[i][2], kind[sq[i]][1]) EXCEPT !.king = kind[sq[i]][2]]]

\* every board of 1..n pieces on `squares', kings only on `kings'
DrawnBoards(squares, kings, n) ==
    UNION { { DrawnBoard(S, kind) :
                kind \in {k \in [S -> {1, 2} \X BOOLEAN] :
                            \A q \in S : k[q][2] => q \in kings} } :
            S \in {T \in SUBSET squares : Cardinality(T) >= 1 /\ Cardinality(T) <= n} }

\* the addresses 1..n of a board whose pieces are the whole store
Refs(h) == [i \in 1..Len(h) |-> i]

\* no call pending; newPiece is the id of the piece whose capture the caller
\* went on from, -1 when there is none
NoCall == [op |-> "none", newPiece |-> -1]

----------------------------------------------------------------------------
(* SpecCore: the board helpers and the evaluator, called on drawn boards   *)

InitCore ==
    /\ heap \in DrawnBoards(SeedSquares, KingSquares, MaxPieces)
    /\ board = Refs(heap)
    /\ res = NoCall
    /\ plies = 0
    /\ playerTurn = 1
    /\ pieceSelected = 0
    /\ tournament = NoTournament

\* getAllMovesForTeam(board, team)
CallGetAllMovesForTeam ==
    /\ res.op = "none"
    /\ \E team \in {1, 2} :
          res' = [op |-> "getAllMovesForTeam", team |-> team,
                  moves |-> getAllMovesForTeam(View(heap, board), team)]
    /\ UNCHANGED <<heap, board, plies, playerTurn, pieceSelected, tournament>>

\* applyMoveOnBoard(board, piece, x, y) for a piece of the board and one of
\* its available moves
CallApplyMoveOnBoard ==
    /\ res.op = "none"
    /\ \E i \in 1..Len(board) :
          \E m \in Range(findAvailableMovesOnBoard(heap[board[i]], View(heap, board))) :
             LET r == applyMoveOnBoard(heap, board, heap[board[i]], m[1], m[2])
             IN  /\ heap' = r.heap
                 /\ res' = [op |-> "applyMoveOnBoard", piece |-> heap[board[i]],
                            x |-> m[1], y |-> m[2],
                            before |-> View(heap, board), newPiece |-> res.newPiece,
                            board |-> r.board, captured |-> r.captured]
    /\ UNCHANGED <<board, plies, playerTurn, pieceSelected, tournament>>

\* findAvailableMovesOnBoard(piece, board) for a piece of the board
CallFindAvailableMovesOnBoard ==
    /\ res.op = "none"
    /\ \E i \in 1..Len(board) :
          res' = [op |-> "findAvailableMovesOnBoard", piece |-> heap[board[i]],
                  moves |-> findAvailableMovesOnBoard(heap[board[i]], View(heap, board))]
    /\ UNCHANGED <<heap, board, plies, playerTurn, pieceSelected, tournament>>

\* countChainCaptures(board, piece, x, y, depth) for a piece of the board and
\* one of its available moves
CallCountChainCaptures ==
    /\ res.op = "none"
    /\ \E i \in 1..Len(board), depth \in {0, 1} :
          \E m \in Range(findAvailableMovesOnBoard(heap[board[i]], View(heap, board))) :
             res' = [op |-> "countChainCaptures", piece |-> heap[board[i]], move |-> m,
                     depth |-> depth,
                     count |-> countChainCaptures(View(heap, board), heap[board[i]],
                                                  m[1], m[2], depth)]
    /\ UNCHANGED <<heap, board, plies, playerTurn, pieceSelected, tournament>>

\* pieceKilledOnBoard(piece, x, y, board) for a piece of the board and one of
\* its available moves
CallPieceKilledOnBoard ==
    /\ res.op = "none"
    /\ \E i \in 1..Len(board) :
          \E m \in Range(findAvailableMovesOnBoard(heap[board[i]], View(heap, board))) :
             res' = [op |-> "pieceKilledOnBoard", piece |-> heap[board[i]],
                     x |-> m[1], y |-> m[2],
                     killed |-> pieceKilledOnBoard(heap[board[i]], m[1], m[2],
                                                   View(heap, board))]
    /\ UNCHANGED <<heap, board, plies, playerTurn, pieceSelected, tournament>>

\* isGameOver(board)
CallIsGameOver ==
    /\ res.op = "none"
    /\ res' = [op |-> "isGameOver", status |-> isGameOver(View(heap, board))]
    /\ UNCHANGED <<heap, board, plies, playerTurn, pieceSelected, tournament>>

\* evaluateBoard(board)
CallEvaluateBoard ==
    /\ res.op = "none"
    /\ res' = [op |-> "evaluateBoard", score |-> evaluateBoard(View(heap, board), <<>>)]
    /\ UNCHANGED <<heap, board, plies, playerTurn, pieceSelected, tournament>>

\* mctsAI(board, team)
CallMctsAI ==
    /\ res.op = "none"
    /\ \E team \in {1, 2} :
          \E r \in mctsAI(View(heap, board), team, mctsIterations) :
             res' = [op |-> "mctsAI", team |-> team, result |-> r]
    /\ UNCHANGED <<heap, board, plies, playerTurn, pieceSelected, tournament>>

\* the caller goes on with the board a capture returned (result.board), as
\* countChainCaptures and the searches do; the objects of the old board are
\* dropped
Continue ==
    /\ res.op = "applyMoveOnBoard"
    /\ res.captured
    /\ heap' = View(heap, res.board)
    /\ board' = Refs(View(heap, res.board))
    /\ res' = [NoCall EXCEPT !.newPiece = res.piece.id]
    /\ plies' = plies + 1
    /\ UNCHANGED <<playerTurn, pieceSelected, tournament>>

NextCore ==
    \/ CallGetAllMovesForTeam
    \/ CallApplyMoveOnBoard
    \/ CallIsGameOver
    \/ CallEvaluateBoard
    \/ CallMctsAI
    \/ Continue

SpecCore == InitCore /\ [][NextCore]_vars

----------------------------------------------------------------------------
(* SpecPieces: the helpers that take one piece of a drawn board            *)

NextPieces ==
    \/ CallFindAvailableMovesOnBoard
    \/ CallCountChainCaptures
    \/ CallPieceKilledOnBoard

SpecPieces == InitCore /\ [][NextPieces]_vars

----------------------------------------------------------------------------
(* SpecPlay: simulated play.  From the board setupGame builds, or from a   *)
(* board drawn from later in such play, applyMoveOnBoard is called with a   *)
(* move of getAllMovesForTeam and the caller goes on with the board it      *)
(* returns, as the searches and rollouts do.                                *)

\* setupGame: ids 0..23 in creation order, four pieces a row, team 1 on rows
\* 0..2 and team 2 on rows 5..7, on alternating squares
setupGame ==
    [i \in 1..24 |->
        LET id  == i - 1
            row == id \div 4
            y   == IF row < 3 THEN row ELSE row + 2
        IN  Piece(id, 2 * (id % 4) + (y % 2), y, IF row < 3 THEN 1 ELSE 2)]

\* applyMoveOnBoard calls in a row
MaxDepth == 3

\* squares of the boards drawn from later in the play; such a board is two
\* calls away from the end of its sequence
PlaySquares == { <<0, 0>>, <<1, 1>>, <<2, 2>>, <<3, 3>>, <<5, 5>>, <<6, 6>>, <<1, 3>>, <<6, 4>> }

InitPlay ==
    /\ heap \in {setupGame} \cup DrawnBoards(PlaySquares, KingSquares, MaxPieces - 1)
    /\ board = Refs(heap)
    /\ res = NoCall
    /\ plies = IF heap = setupGame THEN 0 ELSE MaxDepth - 2
    /\ playerTurn = 1
    /\ pieceSelected = 0
    /\ tournament = NoTournament

\* applyMoveOnBoard(board, m.piece, m.move) for a move m of
\* getAllMovesForTeam(board, team); the returned board becomes the board
PlayMove ==
    /\ plies < MaxDepth
    /\ \E team \in {1, 2} :
          \E m \in Range(getAllMovesForTeam(View(heap, board), team)) :
             LET r == applyMoveOnBoard(heap, board, m.piece, m.move[1], m.move[2])
             IN  /\ heap' = View(r.heap, r.board)
                 /\ board' = Refs(View(r.heap, r.board))
                 /\ res' = [op |-> "played", team |-> team, piece |-> m.piece,
                            captured |-> r.captured, newPiece |-> -1]
    /\ plies' = plies + 1
    /\ UNCHANGED <<playerTurn, pieceSelected, tournament>>

\* getAllMovesForTeam on the board as set up
NextPlay ==
    \/ (plies = 0 /\ CallGetAllMovesForTeam)
    \/ PlayMove

SpecPlay == InitPlay /\ [][NextPlay]_vars

----------------------------------------------------------------------------
(* SpecAI: the dispatcher, called for either team on drawn live boards.    *)
(* The live board holds men only: movePiece never crowns a piece.          *)

\* number of men on a live board the dispatcher is called on
MaxMen == 3

\* squares of the drawn live boards: the corner end of the long diagonal
LiveSquares == { <<0, 0>>, <<1, 1>>, <<2, 2>>, <<3, 3>> }

InitAI ==
    /\ heap \in DrawnBoards(LiveSquares, {}, MaxMen)
    /\ board = Refs(heap)
    /\ res = NoCall
    /\ plies = 0
    /\ playerTurn = 1
    /\ pieceSelected = 0
    /\ tournament = NoTournament

\* getAIMove(playerType, team) with game.board the drawn board
CallGetAIMove ==
    /\ res.op = "none"
    /\ \E k \in 1..Len(AI_TYPES), team \in {1, 2} :
          \E r \in getAIMove(AI_TYPES[k], team, View(heap, board)) :
             /\ res' = [op |-> "getAIMove", playerType |-> AI_TYPES[k],
                        team |-> team, result |-> r,
                        before |-> View(heap, board), turn |-> playerTurn]
             /\ heap' = getAIMoveStore(AI_TYPES[k], team, heap, board)
    /\ UNCHANGED <<board, plies, playerTurn, pieceSelected, tournament>>

\* search depths minimax is called with
MaxSearchDepth == 2

\* minimax(board, depth, -Infinity, Infinity, currentTeam === 1, currentTeam,
\* maxDepth) with game.board the drawn board: team 1 is the maximizing
\* player, as in minimaxAI
CallMinimax ==
    /\ res.op = "none"
    /\ \E maxDepth \in 1..MaxSearchDepth, team \in {1, 2} :
          \E depth \in 0..maxDepth :
             res' = [op |-> "minimax", depth |-> depth, maxDepth |-> maxDepth,
                     team |-> team,
                     score |-> minimax(View(heap, board), depth, -Infinity, Infinity,
                                       team = 1, team, maxDepth)]
    /\ UNCHANGED <<heap, board, plies, playerTurn, pieceSelected, tournament>>

NextAI ==
    \/ CallGetAIMove
    \/ CallMinimax

SpecAI == InitAI /\ [][NextAI]_vars

----------------------------------------------------------------------------
(* SpecMCTS: mctsAI step by step on drawn boards, one step per iteration    *)
(* of its loop                                                              *)

\* iteration budgets passed to mctsAI
MaxIterations == 3

\* the men the drawn boards are made of: with all four, team 1 has a double
\* capture from (0,0) and a single one from (2,0)
TreeSquares == { <<0, 0>>, <<2, 0>>, <<1, 1>>, <<3, 3>> }
TreeMen == [q \in TreeSquares |-> <<IF q[2] = 0 THEN 1 ELSE 2, FALSE>>]
TreeBoards ==
    { DrawnBoard(S, [q \in S |-> TreeMen[q]]) : S \in SUBSET TreeSquares \ {{}} }

InitMCTS ==
    /\ heap \in TreeBoards
    /\ board = Refs(heap)
    /\ res = NoCall
    /\ plies = 0
    /\ playerTurn = 1
    /\ pieceSelected = 0
    /\ tournament = NoTournament

\* state of a call of mctsAI: pc is "loop" inside the iteration loop and
\* "done" after the return; grown, node and result are the tree handed to
\* the last mctsBackpropagate, its node and its result
mctsCall(team, iterations, pc, i, nodes, grown, node, result, ret) ==
    [op |-> "mctsAI", team |-> team, iterations |-> iterations, pc |-> pc, i |-> i,
     nodes |-> nodes, grown |-> grown, node |-> node, result |-> result, ret |-> ret]

\* mctsAI up to its loop
MctsAICall ==
    /\ res.op = "none"
    /\ \E team \in {1, 2}, iterations \in 0..MaxIterations :
          LET root  == MCTSNode(View(heap, board), team, 0, <<>>, Null)
              moves == getAllMovesForTeam(View(heap, board), team)
              return(ret) == mctsCall(team, iterations, "done", 0, <<root>>, <<root>>, 0, 0, ret)
          IN  res' = IF isTerminal(<<root>>, 1) THEN return(NoMove)
                     ELSE IF Len(moves) = 0 THEN return(NoMove)
                     ELSE IF Len(moves) = 1
                     THEN return([piece |-> moves[1].piece, move |-> moves[1].move])
                     ELSE mctsCall(team, iterations, "loop", 0, <<root>>, <<root>>, 0, 0, NoMove)
    /\ UNCHANGED <<heap, board, plies, playerTurn, pieceSelected, tournament>>

\* one iteration of the loop: selection, expansion, rollout, backpropagation
MctsAIIterate ==
    /\ res.op = "mctsAI"
    /\ res.pc = "loop"
    /\ res.i < res.iterations
    /\ \E s \in {mctsSelect(res.nodes, 1)} :
          LET expands == ~isTerminal(s.nodes, s.node) /\ ~isFullyExpanded(s.nodes, s.node)
          IN  \E idx \in 1..(IF expands THEN Len(s.nodes[s.node].untriedMoves[1]) ELSE 1) :
                 \E e \in {IF expands THEN expand(s.nodes, s.node, idx) ELSE s} :
                    IF e.node = 0
                    THEN res' = [res EXCEPT !.i = @ + 1, !.nodes = e.nodes]
                    ELSE \E result \in (IF ~isTerminal(e.nodes, e.node)
                                        THEN rolloutOf(e.nodes[e.node].board, e.nodes[e.node].team)
                                        ELSE {IF isGameOver(e.nodes[e.node].board).winner = 1
                                              THEN 2 ELSE 0}) :
                            res' = [res EXCEPT
                                       !.i = @ + 1,
                                       !.nodes = mctsBackpropagate(e.nodes, e.node, result, res.team),
                                       !.grown = e.nodes,
                                       !.node = e.node,
                                       !.result = result]
    /\ UNCHANGED <<heap, board, plies, playerTurn, pieceSelected, tournament>>

\* mctsAI after its loop
MctsAIReturn ==
    /\ res.op = "mctsAI"
    /\ res.pc = "loop"
    /\ res.i = res.iterations
    /\ \E best \in {bestChild(res.nodes)} :
          res' = [res EXCEPT
                     !.pc = "done",
                     !.ret = IF best # 0
                             THEN [piece |-> Find(View(heap, board),
                                                  LAMBDA p : p.id = res.nodes[best].piece.id),
                                   move  |-> res.nodes[best].move]
                             ELSE NoMove]
    /\ UNCHANGED <<heap, board, plies, playerTurn, pieceSelected, tournament>>

NextMCTS ==
    \/ MctsAICall
    \/ MctsAIIterate
    \/ MctsAIReturn

SpecMCTS == InitMCTS /\ [][NextMCTS]_vars

\* SpecTree: the same calls, also on a board with a king: a team-1 king in
\* the corner and a team-2 man off its diagonal
TreeKingBoards ==
    { DrawnBoard({<<0, 0>>, <<3, 1>>},
                 [q \in {<<0, 0>>, <<3, 1>>} |->
                     IF q = <<0, 0>> THEN <<1, TRUE>> ELSE <<2, FALSE>>]) }

InitTree ==
    /\ heap \in TreeBoards \cup TreeKingBoards
    /\ board = Refs(heap)
    /\ res = NoCall
    /\ plies = 0
    /\ playerTurn = 1
    /\ pieceSelected = 0
    /\ tournament = NoTournament

SpecTree == InitTree /\ [][NextMCTS]_vars

----------------------------------------------------------------------------
(* SpecRollout: mctsSimulate step by step on drawn boards, one step per     *)
(* iteration of its loop; simBoard is a board of the store                  *)

\* move caps passed to mctsSimulate
MaxRollout == 3

InitRollout ==
    /\ heap \in TreeBoards
    /\ board = Refs(heap)
    /\ res = NoCall
    /\ plies = 0
    /\ playerTurn = 1
    /\ pieceSelected = 0
    /\ tournament = NoTournament

\* the moves the rollout policy can choose from: a capture if there is one,
\* else a safe move if there is one and the draw is below 0.7, else any move
rolloutChoices(moves, bv, team, lucky) ==
    LET captures  == SelectSeq(moves, LAMBDA m :
                        pieceKilledOnBoard(m.piece, m.move[1], m.move[2], bv) # Null)
        safeMoves == SelectSeq(moves, LAMBDA m : isSquareSafe(bv, m.move[1], m.move[2], team))
    IN  IF Len(captures) > 0 THEN Range(captures)
        ELSE IF Len(safeMoves) > 0 /\ lucky THEN Range(safeMoves)
        ELSE Range(moves)

\* mctsSimulate up to its loop: input is the board passed in as it was at
\* the call, ret is -1 until the function returns (then in halves)
MctsSimulateCall ==
    /\ res.op = "none"
    /\ \E currentTeam \in {1, 2}, maxMoves \in 0..MaxRollout :
          \E c \in {cloneBoard(heap, board)} :
             /\ heap' = c.heap
             /\ res' = [op |-> "mctsSimulate", pc |-> "loop", simBoard |-> c.board,
                        team |-> currentTeam, i |-> 0, maxMoves |-> maxMoves,
                        ret |-> -1, input |-> View(heap, board)]
    /\ UNCHANGED <<board, plies, playerTurn, pieceSelected, tournament>>

\* one iteration of the loop
MctsSimulateStep ==
    /\ res.op = "mctsSimulate"
    /\ res.pc = "loop"
    /\ res.i < res.maxMoves
    /\ \E status \in {isGameOver(View(heap, res.simBoard))},
          moves \in {getAllMovesForTeam(View(heap, res.simBoard), res.team)} :
          IF status.over
          THEN /\ res' = [res EXCEPT !.pc = "done",
                                     !.ret = IF status.winner = 1 THEN 2 ELSE 0]
               /\ heap' = heap
          ELSE IF Len(moves) = 0
          THEN /\ res' = [res EXCEPT !.pc = "done",
                                     !.ret = IF res.team = 1 THEN 0 ELSE 2]
               /\ heap' = heap
          ELSE \E lucky \in BOOLEAN :
                  \E chosen \in rolloutChoices(moves, View(heap, res.simBoard), res.team, lucky) :
                     \E r \in {applyMoveOnBoard(heap, res.simBoard, chosen.piece,
                                                chosen.move[1], chosen.move[2])} :
                        /\ heap' = r.heap
                        /\ res' = [res EXCEPT !.simBoard = r.board,
                                              !.team = IF res.team = 1 THEN 2 ELSE 1,
                                              !.i = @ + 1]
    /\ UNCHANGED <<board, plies, playerTurn, pieceSelected, tournament>>

\* mctsSimulate after its loop
MctsSimulateReturn ==
    /\ res.op = "mctsSimulate"
    /\ res.pc = "loop"
    /\ res.i = res.maxMoves
    /\ \E score \in {evaluateBoard(View(heap, res.simBoard), <<>>)} :
          res' = [res EXCEPT !.pc = "done",
                             !.ret = IF score > 0 THEN 2 ELSE IF score < 0 THEN 0 ELSE 1]
    /\ UNCHANGED <<heap, board, plies, playerTurn, pieceSelected, tournament>>

NextRollout ==
    \/ MctsSimulateCall
    \/ MctsSimulateStep
    \/ MctsSimulateReturn

SpecRollout == InitRollout /\ [][NextRollout]_vars

----------------------------------------------------------------------------
(* The orchestrator (src/sketch.js): the live board game.board is bv, read  *)
(* off the store; its Piece objects are changed in place.                   *)

validJump(piece, x, y, bv) ==
    /\ ~(x < 0 \/ x > 7 \/ y < 0 \/ y > 7)
    /\ Abs(piece.x0 - x) = Abs(piece.y0 - y)
    /\ ~(piece.x0 = x /\ piece.y0 = y)
    /\ ~(Abs(piece.x0 - x) > 2 /\ ~piece.king)
    /\ Find(bv, LAMBDA p : p.x = x /\ p.y = y /\ p.id # piece.id) = Null
    /\ Find(bv, LAMBDA p : 2 * p.x = piece.x0 + x /\ 2 * p.y = piece.y0 + y
                           /\ p.team = piece.team) = Null
    /\ (Abs(piece.x0 - x) = 2 /\ ~piece.king) =>
          Find(bv, LAMBDA p : 2 * p.x = piece.x0 + x /\ 2 * p.y = piece.y0 + y
                              /\ p.team # piece.team) # Null

\* for (xi = -7; xi < 8; xi++) (x+xi, y+xi); for (yi = -7; yi < 8; yi++) (x+yi, y-yi)
kingSteps == <<-7, -6, -5, -4, -3, -2, -1, 0, 1, 2, 3, 4, 5, 6, 7>>

findAvailableMoves(piece, bv) ==
    LET x == piece.x0
        y == piece.y0
        near == << <<x + 1, y - 1>>, <<x + 2, y - 2>>, <<x - 1, y - 1>>, <<x - 2, y - 2>>,
                   <<x + 1, y + 1>>, <<x + 2, y + 2>>, <<x - 1, y + 1>>, <<x - 2, y + 2>> >>
        far  == [k \in 1..Len(kingSteps) |-> <<x + kingSteps[k], y + kingSteps[k]>>]
                \o [k \in 1..Len(kingSteps) |-> <<x + kingSteps[k], y - kingSteps[k]>>]
        ok(m) == validJump(piece, m[1], m[2], bv)
    IN  SelectSeq(near, ok) \o (IF piece.king THEN SelectSeq(far, ok) ELSE <<>>)

\* piceKilled: the loop returns in its first iteration, with the opposing
\* piece on the first square of the scan or undefined; false and undefined
\* both read Null here (the callers only test truthiness and read .id)
piceKilled(piece, x, y, bv) ==
    IF Abs(piece.x0 - x) > 1
    THEN LET startx == Min(piece.x0, x)
             endx   == Max(piece.x0, x)
             starty == Min(piece.y0, y)
             endy   == Max(piece.y0, y)
         IN  IF startx + 1 < endx /\ starty + 1 < endy
             THEN Find(bv, LAMBDA p : p.x = startx + 1 /\ p.y = starty + 1
                                      /\ p.team # piece.team)
             ELSE Null
    ELSE Null

\* A continuation test that never finds a further kill
canKillMoreNever(piece, bv) == <<>>

\* canKillMore: the first available move that kills, <<>> for undefined
canKillMore(piece, bv) ==
    LET moves == findAvailableMoves(piece, bv)
        hits  == {i \in 1..Len(moves) : piceKilled(piece, moves[i][1], moves[i][2], bv) # Null}
    IN  IF hits = {} THEN <<>>
        ELSE moves[CHOOSE i \in hits : \A j \in hits : i <= j]

\* movePiece(piece, x, y) with piece the object at address a: the store,
\* game.board.pieces, playerTurn and pieceSelected after the call, and what
\* the call did
movePieceAccepted(h, b, a, x, y, turn, selected) ==
    LET passed == IF turn = 1 THEN 2 ELSE 1
        \* h2 is the store once x, y, x0, y0 are set; pieces the filtered array
        afterKill(h2, pieces) ==
            IF canKillMore(h2[a], View(h2, pieces)) = <<>>
            THEN [heap |-> h2, board |-> pieces, playerTurn |-> passed,
                  pieceSelected |-> 0, accepted |-> TRUE, killed |-> TRUE]
            ELSE [heap |-> h2, board |-> pieces, playerTurn |-> turn,
                  pieceSelected |-> selected, accepted |-> TRUE, killed |-> TRUE]
        settle(h1, killed) ==
            IF killed # Null
            THEN afterKill([h1 EXCEPT ![a].x0 = x, ![a].y0 = y],
                           SelectSeq(b, LAMBDA q : h1[q].id # killed.id))
            ELSE [heap |-> [h1 EXCEPT ![a].x0 = x, ![a].y0 = y], board |-> b,
                  playerTurn |-> passed, pieceSelected |-> 0,
                  accepted |-> TRUE, killed |-> FALSE]
        landed(h1) == settle(h1, piceKilled(h1[a], x, y, View(h1, b)))
    IN  landed([h EXCEPT ![a].x = x, ![a].y = y])

\* A movePiece whose else branch leaves the piece where it was dropped
movePieceLeftWhereDropped(h, b, a, x, y, turn, selected) ==
    IF validJump(h[a], x, y, View(h, b))
    THEN movePieceAccepted(h, b, a, x, y, turn, selected)
    ELSE [heap |-> h, board |-> b, playerTurn |-> turn, pieceSelected |-> selected,
          accepted |-> FALSE, killed |-> FALSE]

\* movePiece(piece, x, y) for the piece at address a: the state it leaves,
\* with the branch it took (accepted) and whether a piece was removed
movePiece(h, b, a, x, y, turn, selected) ==
    IF validJump(h[a], x, y, View(h, b))
    THEN movePieceAccepted(h, b, a, x, y, turn, selected)
    ELSE [heap |-> [h EXCEPT ![a].x = h[a].x0, ![a].y = h[a].y0], board |-> b,
          playerTurn |-> turn, pieceSelected |-> selected,
          accepted |-> FALSE, killed |-> FALSE]

----------------------------------------------------------------------------
(* Spec: the game.  Events are the mouse handlers and the AI timer; the    *)
(* player-type selectors can be changed between any two events, so the     *)
(* current player's type is an input of each event.                        *)

\* accepted moves in a run
MaxPlies == 2

\* squares of the drawn mid-game boards: no man stands on a far rank yet
GameSquares == { <<2, 2>>, <<3, 3>>, <<4, 4>>, <<5, 3>>, <<6, 6>> }

\* how far from the square it was picked up on, in columns and in rows, a
\* piece is released
MaxReach == 2

\* the AI player types the timer event is fired with
GameAITypes == {"random", "greedy", "mcts"}

Init ==
    /\ heap \in { h \in DrawnBoards(GameSquares, {}, MaxMen) :
                    \A t \in {1, 2} : \E i \in 1..Len(h) : h[i].team = t }
    /\ board = Refs(heap)
    /\ res = NoCall
    /\ plies = 0
    /\ playerTurn \in {1, 2}
    /\ pieceSelected = 0
    /\ tournament = NoTournament

\* the state after movePiece returned r for the piece at address a
Moved(r, a) ==
    /\ heap' = r.heap
    /\ board' = r.board
    /\ playerTurn' = r.playerTurn
    /\ pieceSelected' = r.pieceSelected
    /\ plies' = plies + (IF r.accepted THEN 1 ELSE 0)
    /\ res' = [op |-> "movePiece", piece |-> a, turn |-> playerTurn,
               pieces |-> Len(board), accepted |-> r.accepted, killed |-> r.killed]
    /\ UNCHANGED tournament

\* mousePressed on the square of a piece of the side to move (current player
\* human); a press anywhere else changes nothing
MousePressed ==
    /\ \E i \in 1..Len(board) :
          /\ heap[board[i]].team = playerTurn
          /\ pieceSelected' = board[i]
          /\ heap' = [heap EXCEPT ![board[i]].x0 = heap[board[i]].x,
                                  ![board[i]].y0 = heap[board[i]].y]
    /\ res' = [op |-> "mousePressed"]
    /\ UNCHANGED <<board, plies, playerTurn, tournament>>

\* the selected piece dragged to square (x, y) and released there (current
\* player human): mouseDragged sets the piece's x and y, mouseReleased calls
\* movePiece and then checkGameOver, which only raises an alert
Released(x, y) ==
    Moved(movePiece([heap EXCEPT ![pieceSelected].x = x, ![pieceSelected].y = y],
                    board, pieceSelected, x, y, playerTurn, pieceSelected),
          pieceSelected)

MouseReleased ==
    /\ plies < MaxPlies
    /\ pieceSelected # 0
    /\ \E dx \in -MaxReach..MaxReach, dy \in -MaxReach..MaxReach :
          Released(heap[pieceSelected].x0 + dx, heap[pieceSelected].y0 + dy)

\* executeAIMove, chain branch: pieceSelected can kill more
ExecuteAIChain ==
    /\ plies < MaxPlies
    /\ pieceSelected # 0
    /\ canKillMore(heap[pieceSelected], View(heap, board)) # <<>>
    /\ LET chainMove == canKillMore(heap[pieceSelected], View(heap, board))
       IN  Moved(movePiece(heap, board, pieceSelected, chainMove[1], chainMove[2],
                           playerTurn, pieceSelected),
                 pieceSelected)

\* executeAIMove once getAIMove returned result and left the store as h
AIMoved(h, result) ==
    IF result = NoMove
    THEN /\ res' = [op |-> "executeAIMove"]
         /\ heap' = h
         /\ UNCHANGED <<board, plies, playerTurn, pieceSelected, tournament>>
    ELSE \E i \in 1..Len(board) :
            /\ h[board[i]].id = result.piece.id
            /\ Moved(movePiece([h EXCEPT ![board[i]].x0 = h[board[i]].x,
                                         ![board[i]].y0 = h[board[i]].y],
                               board, board[i], result.move[1], result.move[2],
                               playerTurn, board[i]),
                     board[i])

\* executeAIMove, dispatcher branch
ExecuteAIMove ==
    /\ plies < MaxPlies
    /\ IF pieceSelected = 0 THEN TRUE
       ELSE canKillMore(heap[pieceSelected], View(heap, board)) = <<>>
    /\ \E currentPlayerType \in GameAITypes :
          \E h \in {getAIMoveStore(currentPlayerType, playerTurn, heap, board)} :
             \E result \in getAIMove(currentPlayerType, playerTurn, View(heap, board)) :
                AIMoved(h, result)

Next ==
    \/ MousePressed
    \/ MouseReleased
    \/ ExecuteAIChain
    \/ ExecuteAIMove

Spec == Init /\ [][Next]_vars

----------------------------------------------------------------------------
(* SpecTimers: the AI timer.  draw() calls scheduleAIMove on every frame,   *)
(* the timeout it sets calls executeAIMove, and resetGame starts a new      *)
(* game.  aiTimers holds the pending timeouts, each with the size the store *)
(* had when it was set: the store grows only when setupGame creates the     *)
(* pieces of a new game, so its size tells the games apart.                 *)

\* calls of resetGame in a run
MaxResets == 1

\* the AI player type the current player is set to when it is not human
TimerAITypes == {"random"}

InitTimers ==
    /\ heap = setupGame
    /\ board = Refs(heap)
    /\ res = NoCall
    /\ plies = 0
    /\ playerTurn = 1
    /\ pieceSelected = 0
    /\ tournament = NoTournament

\* scheduleAIMove, called by draw()
ScheduleAIMove ==
    /\ \E currentPlayerType \in {PLAYER_HUMAN} \cup TimerAITypes :
          IF tournament.aiMoveScheduled \/ currentPlayerType = PLAYER_HUMAN
          THEN UNCHANGED <<tournament, res>>
          ELSE /\ tournament' = [tournament EXCEPT
                                    !.aiMoveScheduled = TRUE,
                                    !.aiTimers = Append(@, Len(heap))]
               /\ res' = [op |-> "scheduleAIMove"]
    /\ UNCHANGED <<heap, board, plies, playerTurn, pieceSelected>>

\* the state after the executeAIMove of the timeout set in game `set':
\* movePiece returned r, or no move was made (r = <<>>); the callback then
\* clears aiMoveScheduled
TimedOut(r, set) ==
    /\ IF r = <<>>
       THEN UNCHANGED <<heap, board, playerTurn, pieceSelected, plies>>
       ELSE /\ heap' = r.heap
            /\ board' = r.board
            /\ playerTurn' = r.playerTurn
            /\ pieceSelected' = r.pieceSelected
            /\ plies' = plies + (IF r.accepted THEN 1 ELSE 0)
    /\ tournament' = [tournament EXCEPT !.aiMoveScheduled = FALSE,
                                        !.aiTimers = Tail(@)]
    /\ res' = [op |-> "executeAIMove", set |-> set, game |-> Len(heap)]

\* a pending timeout fires: executeAIMove(); aiMoveScheduled = false
AITimeout ==
    /\ plies < MaxPlies
    /\ tournament.aiTimers # <<>>
    /\ IF pieceSelected # 0 /\ canKillMore(heap[pieceSelected], View(heap, board)) # <<>>
       THEN \E chainMove \in {canKillMore(heap[pieceSelected], View(heap, board))} :
               TimedOut(movePiece(heap, board, pieceSelected, chainMove[1], chainMove[2],
                                  playerTurn, pieceSelected),
                        Head(tournament.aiTimers))
       ELSE \E currentPlayerType \in TimerAITypes :
               \E result \in getAIMove(currentPlayerType, playerTurn, View(heap, board)) :
                  IF result = NoMove
                  THEN TimedOut(<<>>, Head(tournament.aiTimers))
                  ELSE \E i \in 1..Len(board) :
                          /\ heap[board[i]].id = result.piece.id
                          /\ TimedOut(movePiece([heap EXCEPT ![board[i]].x0 = heap[board[i]].x,
                                                             ![board[i]].y0 = heap[board[i]].y],
                                                board, board[i], result.move[1],
                                                result.move[2], playerTurn, board[i]),
                                      Head(tournament.aiTimers))

\* resetGame(): setupGame creates the pieces of the new game
ResetGameCalled ==
    /\ Len(heap) < 24 * (MaxResets + 1)
    /\ heap' = heap \o setupGame
    /\ board' = [i \in 1..24 |-> Len(heap) + i]
    /\ playerTurn' = 1
    /\ pieceSelected' = 0
    /\ tournament' = [tournament EXCEPT !.aiMoveScheduled = FALSE]
    /\ res' = [op |-> "resetGame"]
    /\ UNCHANGED plies

NextTimers ==
    \/ ScheduleAIMove
    \/ AITimeout
    \/ ResetGameCalled

SpecTimers == InitTimers /\ [][NextTimers]_vars

----------------------------------------------------------------------------
(* SpecTournament: the tournaments.  A tournament game is played by the    *)
(* game loop between the resetGame that starts it and the call that        *)
(* records its result; the orchestration only sees the position at each    *)
(* end check, so the moves of a game are an input: the position found.      *)

\* games of a run whose course is open (team 1 wins, team 2 wins or the
\* move limit is hit); every later game is won by team 1 at its first check
MaxOpenGames == 3

\* values taken by the random draws of the shuffle: no swap at all, and a
\* swap with the first element at every step
ShuffleDraws == { [i \in 1..7 |-> i], [i \in 1..7 |-> 0] }

InitTournament ==
    /\ heap = setupGame
    /\ board = Refs(heap)
    /\ res = NoCall
    /\ plies = 0
    /\ playerTurn = 1
    /\ pieceSelected = 0
    /\ tournament = NoTournament

\* resetGame(), when the function that returned t2 got as far as calling it
ResetGame(t2) ==
    IF t2.tournamentGameActive
    THEN /\ heap' = setupGame
         /\ board' = Refs(setupGame)
         /\ playerTurn' = 1
         /\ pieceSelected' = 0
    ELSE UNCHANGED <<heap, board, playerTurn, pieceSelected>>

\* the game loop asks checkTournamentGameEnd after each move of a game that
\* is being played in a round-robin tournament
TournamentGameLoop ==
    /\ tournament.tournamentGameActive
    /\ tournament.tournamentMode = "round_robin"

\* the game loop asks checkBracketGameEnd after each move of a game that is
\* being played in a bracket tournament
BracketGameLoop ==
    /\ tournament.tournamentGameActive
    /\ tournament.tournamentMode = "bracket"

\* positions a tournament game is found in at an end check: team 1 unable
\* to move, team 2 unable to move, both able to move, team 2 without pieces,
\* team 1 without pieces
EndSquares == << <<0, 0>>, <<1, 1>>, <<2, 2>> >>
EndBoard(teams) ==
    DrawnBoard({EndSquares[k] : k \in {i \in 1..3 : teams[i] # 0}},
               [q \in {EndSquares[k] : k \in {i \in 1..3 : teams[i] # 0}} |->
                   <<teams[CHOOSE k \in 1..3 : EndSquares[k] = q], FALSE>>])
EndBoards ==
    { EndBoard(<<1, 2, 2>>), EndBoard(<<2, 1, 1>>), EndBoard(<<1, 2, 0>>),
      EndBoard(<<1, 0, 0>>), EndBoard(<<0, 2, 0>>) }

\* a position in which the game goes on: both sides have pieces and the side
\* to move has a move
GoesOn(pos) ==
    /\ \A team \in {1, 2} : \E k \in 1..Len(pos.board) : pos.board[k].team = team
    /\ Len(getAllMovesForTeam(pos.board, pos.turn)) > 0

\* the position the game loop has brought the game to when it asks for the
\* end check.  In the first game: any of them at the first check and at the
\* check that reaches the move limit, and in between the position of the
\* first check again.  In the other open games: any position that ends the
\* game.  In a later game: team 1 the winner.
Positions ==
    IF plies >= MaxOpenGames
    THEN {[board |-> EndBoard(<<1, 0, 0>>), turn |-> 2]}
    ELSE IF plies > 0
    THEN {pos \in [board : EndBoards, turn : {1, 2}] : ~GoesOn(pos)}
    ELSE IF tournament.tournamentMoveCount \in {0, MAX_TOURNAMENT_MOVES - 1}
    THEN [board : EndBoards, turn : {1, 2}]
    ELSE {[board |-> heap, turn |-> playerTurn]}

\* an end check of the game loop: c is what the check returned on pos
EndChecked(pos, c, check, record) ==
    /\ heap' = pos.board
    /\ board' = Refs(pos.board)
    /\ playerTurn' = pos.turn
    /\ pieceSelected' = 0
    /\ tournament' = c.t
    /\ res' = IF c.returned
              THEN [op |-> record,
                    winner |-> c.t.tournamentGameLog[Len(c.t.tournamentGameLog)].winner,
                    active |-> tournament.tournamentGameActive]
              ELSE [op |-> check]
    /\ plies' = IF c.returned /\ plies < MaxOpenGames THEN plies + 1 ELSE plies

\* the button that calls startRoundRobinTournament
StartRoundRobinTournament ==
    /\ tournament' = startRoundRobinTournament(tournament)
    /\ res' = [op |-> "startRoundRobinTournament"]
    /\ IF tournament.tournamentMode # "null"
       THEN UNCHANGED <<heap, board, playerTurn, pieceSelected>>
       ELSE ResetGame(startRoundRobinTournament(tournament))
    /\ UNCHANGED plies

\* the button that calls startBracketTournament
StartBracketTournament ==
    /\ \E draws \in ShuffleDraws :
          /\ tournament' = startBracketTournament(tournament, draws)
          /\ IF tournament.tournamentMode # "null"
             THEN UNCHANGED <<heap, board, playerTurn, pieceSelected>>
             ELSE ResetGame(startBracketTournament(tournament, draws))
    /\ res' = [op |-> "startBracketTournament"]
    /\ UNCHANGED plies

\* checkTournamentGameEnd after a move of the game
CheckTournamentGameEnd ==
    /\ TournamentGameLoop
    /\ \E pos \in Positions :
          \E c \in {checkTournamentGameEnd(tournament, pos.board, pos.turn)} :
             EndChecked(pos, c, "checkTournamentGameEnd", "recordTournamentResult")

\* checkBracketGameEnd after a move of the game
CheckBracketGameEnd ==
    /\ BracketGameLoop
    /\ \E pos \in Positions :
          \E c \in {checkBracketGameEnd(tournament, pos.board, pos.turn)} :
             EndChecked(pos, c, "checkBracketGameEnd", "recordBracketResult")

\* the timer set by recordTournamentResult fires
TimerRunTournamentGame ==
    /\ tournament.timers # <<>>
    /\ Head(tournament.timers) = "runTournamentGame"
    /\ tournament' = runTournamentGame([tournament EXCEPT !.timers = Tail(@)])
    /\ ResetGame(runTournamentGame(tournament))
    /\ res' = [op |-> "runTournamentGame"]
    /\ UNCHANGED plies

\* a timer set by recordBracketResult for the next game of the match fires
TimerRunBracketGame ==
    /\ tournament.timers # <<>>
    /\ Head(tournament.timers) = "runBracketGame"
    /\ tournament' = runBracketGame([tournament EXCEPT !.timers = Tail(@)])
    /\ ResetGame(runBracketGame(tournament))
    /\ res' = [op |-> "runBracketGame"]
    /\ UNCHANGED plies

\* a timer set by recordBracketResult for the next match fires
TimerStartNextBracketMatch ==
    /\ tournament.timers # <<>>
    /\ Head(tournament.timers) = "startNextBracketMatch"
    /\ tournament' = startNextBracketMatch([tournament EXCEPT !.timers = Tail(@)])
    /\ ResetGame(startNextBracketMatch(tournament))
    /\ res' = [op |-> "startNextBracketMatch"]
    /\ UNCHANGED plies

NextTournament ==
    \/ StartRoundRobinTournament
    \/ StartBracketTournament
    \/ CheckTournamentGameEnd
    \/ CheckBracketGameEnd
    \/ TimerRunTournamentGame
    \/ TimerRunBracketGame
    \/ TimerStartNextBracketMatch

SpecTournament == InitTournament /\ [][NextTournament]_vars

\* SpecEndChecks: the round robin with a game loop that also asks the end
\* check between the recording of a result and the resetGame of the next
\* game, on the position the game ended in
FurtherTournamentGameEnd ==
    /\ ~tournament.tournamentGameActive
    /\ tournament.tournamentMode = "round_robin"
    /\ plies < MaxOpenGames
    /\ \E c \in {checkTournamentGameEnd(tournament, heap, playerTurn)} :
          EndChecked([board |-> heap, turn |-> playerTurn], c,
                     "checkTournamentGameEnd", "recordTournamentResult")

NextEndChecks ==
    \/ StartRoundRobinTournament
    \/ CheckTournamentGameEnd
    \/ FurtherTournamentGameEnd
    \/ TimerRunTournamentGame

SpecEndChecks == InitTournament /\ [][NextEndChecks]_vars

\* SpecBracket: one bracket tournament after another.  The position found by
\* the first end check of an open game is one that ends the game or the one
\* in which both teams can move and team 1 is to move; in the latter the
\* later checks of that game find the same position, up to the move limit,
\* so that each open game may be won by either team or be drawn.  In a
\* later game: team 1 the winner.
BracketPositions ==
    IF plies >= MaxOpenGames
    THEN {[board |-> EndBoard(<<1, 0, 0>>), turn |-> 2]}
    ELSE IF tournament.tournamentMoveCount = 0
    THEN {pos \in [board : EndBoards, turn : {1, 2}] :
             GoesOn(pos) => pos = [board |-> EndBoard(<<1, 2, 0>>), turn |-> 1]}
    ELSE {[board |-> heap, turn |-> playerTurn]}

\* checkBracketGameEnd after a move of the game
BracketGameEndChecked ==
    /\ BracketGameLoop
    /\ \E pos \in BracketPositions :
          \E c \in {checkBracketGameEnd(tournament, pos.board, pos.turn)} :
             EndChecked(pos, c, "checkBracketGameEnd", "recordBracketResult")

NextBracket ==
    \/ StartBracketTournament
    \/ BracketGameEndChecked
    \/ TimerRunBracketGame
    \/ TimerStartNextBracketMatch

SpecBracket == InitTournament /\ [][NextBracket]_vars

\* the game loop runs on every frame and the timers fire
SpecBracketRuns ==
    /\ SpecBracket
    /\ WF_vars(BracketGameEndChecked)
    /\ WF_vars(TimerRunBracketGame)
    /\ WF_vars(TimerStartNextBracketMatch)

\* the game loop runs on every frame and the timers fire
SpecTournamentRuns ==
    /\ SpecTournament
    /\ WF_vars(CheckTournamentGameEnd)
    /\ WF_vars(CheckBracketGameEnd)
    /\ WF_vars(TimerRunTournamentGame)
    /\ WF_vars(TimerRunBracketGame)
    /\ WF_vars(TimerStartNextBracketMatch)

----------------------------------------------------------------------------
(* Properties.  The vocabulary below is stated on boards directly, apart   *)
(* from the operators whose results it judges.                              *)

\* the four diagonal steps
Diagonals == { <<1, 1>>, <<1, -1>>, <<-1, 1>>, <<-1, -1>> }

OnBoard(x, y) == x >= 0 /\ x <= 7 /\ y >= 0 /\ y <= 7

PieceAt(bv, x, y) == Find(bv, LAMBDA p : p.x = x /\ p.y = y)

\* piece p can jump over an opposing piece next to it in direction d
CanJump(bv, p, d) ==
    /\ OnBoard(p.x + 2 * d[1], p.y + 2 * d[2])
    /\ PieceAt(bv, p.x + d[1], p.y + d[2]) # Null
    /\ PieceAt(bv, p.x + d[1], p.y + d[2]).team # p.team
    /\ PieceAt(bv, p.x + 2 * d[1], p.y + 2 * d[2]) = Null

\* every (piece, square) pair the move generator offers the team
PerPieceMoves(bv, team) ==
    UNION { { [piece |-> bv[i], move |-> m] : m \in Range(findAvailableMovesOnBoard(bv[i], bv)) } :
            i \in {j \in 1..Len(bv) : bv[j].team = team} }

PerPieceCaptures(bv, team) ==
    { m \in PerPieceMoves(bv, team) :
        pieceKilledOnBoard(m.piece, m.move[1], m.move[2], bv) # Null }

\* the side has no piece, or no piece of it has a square to go to
Lost(bv, team) == PerPieceMoves(bv, team) = {}

\* the piece with the id of p on board bv
Same(bv, p) == Find(bv, LAMBDA q : q.id = p.id)

OnFarRank(p) == (p.team = 1 /\ p.y = 7) \/ (p.team = 2 /\ p.y = 0)

\* C1: if the list getAllMovesForTeam returns holds a capturing move, every
\* move of the list captures; if no move of the team's pieces captures, the
\* list is the union of findAvailableMovesOnBoard over the team's pieces.
MandatoryCaptureFilter ==
    res.op = "getAllMovesForTeam" =>
        /\ (\E m \in Range(res.moves) : isCapture(m, View(heap, board)))
              => \A m \in Range(res.moves) : isCapture(m, View(heap, board))
        /\ PerPieceCaptures(View(heap, board), res.team) = {}
              => Range(res.moves) = PerPieceMoves(View(heap, board), res.team)

\* C1 witness: a returned list of captures on a board where the team also
\* has a move that does not capture
MandatoryCaptureFilterWitness ==
    /\ res.op = "getAllMovesForTeam"
    /\ Len(res.moves) > 0
    /\ \A m \in Range(res.moves) : isCapture(m, View(heap, board))
    /\ PerPieceMoves(View(heap, board), res.team)
          # PerPieceCaptures(View(heap, board), res.team)

\* C2: after applyMoveOnBoard the input board holds the same pieces, in the
\* same order, with the same field values as before the call; the returned
\* board is the one that differs.
InputBoardUnchanged ==
    res.op = "applyMoveOnBoard" =>
        /\ View(heap, board) = res.before
        /\ View(heap, res.board) # res.before

\* C2 witness: a call that captured a piece and crowned the moved man
InputBoardUnchangedWitness ==
    /\ res.op = "applyMoveOnBoard"
    /\ res.captured
    /\ ~res.piece.king
    /\ Same(View(heap, res.board), res.piece).king
    /\ Len(res.board) < Len(board)

\* C5: when a side has no piece or no move, isGameOver reports over with the
\* other side as winner, otherwise not over; evaluateBoard without depth
\* gives +10000 exactly when isGameOver names team 1, -10000 exactly when it
\* names team 2 (scores are in tenths).
TerminalAgreement ==
    res.op \in {"isGameOver", "evaluateBoard"} =>
        LET agree(bv, status, score) ==
                /\ status.over <=> (Lost(bv, 1) \/ Lost(bv, 2))
                /\ status.over => Lost(bv, Other(status.winner))
                /\ ~status.over => status.winner = 0
                /\ (score = 10000 * 10) <=> (status.winner = 1)
                /\ (score = -(10000 * 10)) <=> (status.winner = 2)
        IN  IF res.op = "isGameOver"
            THEN agree(View(heap, board), res.status,
                       evaluateBoard(View(heap, board), <<>>))
            ELSE agree(View(heap, board), isGameOver(View(heap, board)), res.score)

\* C5 witness: isGameOver called on a board where team 1 has pieces but none
\* of them can move
TerminalAgreementWitness ==
    /\ res.op = "isGameOver"
    /\ PieceAt(View(heap, board), 0, 0).team = 1
    /\ Lost(View(heap, board), 1)
    /\ res.status = [over |-> TRUE, winner |-> 2]

\* C6: in the board applyMoveOnBoard returns, the moved piece is a king if it
\* is of team 1 and landed on row 7 or of team 2 and landed on row 0, also
\* when the move continues a capture chain; on any other row it keeps the
\* king value it had.
CrownedOnFarRank ==
    res.op = "applyMoveOnBoard" =>
        Same(View(heap, res.board), res.piece).king
            = IF (res.piece.team = 1 /\ res.y = 7) \/ (res.piece.team = 2 /\ res.y = 0)
              THEN TRUE ELSE res.piece.king

\* C6 witness: a man of team 1 that captured on the previous call captures
\* again and lands on row 7
CrownedOnFarRankWitness ==
    /\ res.op = "applyMoveOnBoard"
    /\ res.newPiece = res.piece.id
    /\ res.captured
    /\ res.piece.team = 1 /\ ~res.piece.king /\ res.y = 7
    /\ Same(View(heap, res.board), res.piece).king

\* the call applied the jump of piece res.piece in direction d
Jumped(d) ==
    /\ res.x = res.piece.x + 2 * d[1]
    /\ res.y = res.piece.y + 2 * d[2]
    /\ CanJump(res.before, res.piece, d)

\* C8: when a team-1 piece P has an opposing piece on an adjacent diagonal
\* square and the square behind it is empty and on the board,
\* applyMoveOnBoard to that square reports captured, returns a board without
\* the opposing piece and with P on the landing square, and the distance-2
\* moves findAvailableMovesOnBoard finds for P on the returned board contain
\* every further jump of P from there.
CaptureThenChain ==
    \A d \in Diagonals :
        (res.op = "applyMoveOnBoard" /\ res.piece.team = 1 /\ Jumped(d)) =>
            LET after(nb, P) ==
                    /\ res.captured
                    /\ Same(nb, PieceAt(res.before, res.piece.x + d[1], res.piece.y + d[2])) = Null
                    /\ Len(nb) = Len(res.before) - 1
                    /\ P # Null /\ P.x = res.x /\ P.y = res.y
                    /\ \A e \in Diagonals :
                          CanJump(nb, P, e) =>
                              <<P.x + 2 * e[1], P.y + 2 * e[2]>> \in
                                  { m \in Range(findAvailableMovesOnBoard(P, nb)) :
                                      Abs(m[1] - P.x) = 2 }
            IN  after(View(heap, res.board), Same(View(heap, res.board), res.piece))

\* C8 witness: P jumped from (2,2) over (3,3) to (4,4) and can jump again
CaptureThenChainWitness ==
    /\ res.op = "applyMoveOnBoard"
    /\ res.piece.team = 1 /\ res.piece.x = 2 /\ res.piece.y = 2
    /\ Jumped(<<1, 1>>)
    /\ res.captured
    /\ \E e \in Diagonals :
          CanJump(View(heap, res.board), Same(View(heap, res.board), res.piece), e)

DispatcherCaptures ==
    (res.op = "getAIMove" /\ PerPieceCaptures(View(heap, board), res.team) # {}) =>
        /\ res.result # NoMove
        /\ [piece |-> res.result.piece, move |-> res.result.move]
              \in PerPieceCaptures(View(heap, board), res.team)

\* C3 witness: minimax returned a capture on a board where the team also has
\* a move that does not capture
DispatcherCapturesWitness ==
    /\ res.op = "getAIMove"
    /\ res.playerType = "minimax"
    /\ res.result \in PerPieceCaptures(View(heap, board), res.team)
    /\ PerPieceMoves(View(heap, board), res.team)
          # PerPieceCaptures(View(heap, board), res.team)

KingOnLanding ==
    (res.op = "movePiece" /\ res.accepted /\ OnFarRank(heap[res.piece])) =>
        heap[res.piece].king

\* C9: after an accepted capturing move, playerTurn is unchanged and
\* pieceSelected stays the moving piece exactly when that piece has a further
\* capturing move from its new square; after any other accepted move
\* playerTurn is the other side and pieceSelected is cleared.
TurnPasses ==
    (res.op = "movePiece" /\ res.accepted) =>
        IF Len(board) < res.pieces
           /\ \E d \in Diagonals : CanJump(View(heap, board), heap[res.piece], d)
        THEN playerTurn = res.turn /\ pieceSelected = res.piece
        ELSE playerTurn = Other(res.turn) /\ pieceSelected = 0

\* C9 witness: a capture after which the same piece is still to move
TurnPassesWitness ==
    /\ res.op = "movePiece"
    /\ res.accepted /\ Len(board) < res.pieces
    /\ playerTurn = res.turn
    /\ pieceSelected = res.piece
    /\ \E d \in Diagonals : CanJump(View(heap, board), heap[res.piece], d)

\* C11: after setupGame the board holds 24 pieces with distinct ids, 12 of
\* team 1 on rows 0..2 and 12 of team 2 on rows 5..7, none a king, and
\* playerTurn is 1; getAllMovesForTeam(board, 1) on it returns exactly 7
\* moves, each a one-square move of a row-2 man that captures nothing.
StartingPosition ==
    (plies = 0 /\ Len(board) = 24) =>
        LET on(bv) ==
                /\ Cardinality({bv[i].id : i \in 1..24}) = 24
                /\ Cardinality({i \in 1..24 : bv[i].team = 1 /\ bv[i].y \in 0..2}) = 12
                /\ Cardinality({i \in 1..24 : bv[i].team = 2 /\ bv[i].y \in 5..7}) = 12
                /\ \A i \in 1..24 : ~bv[i].king
                /\ playerTurn = 1
                /\ (res.op = "getAllMovesForTeam" /\ res.team = 1) =>
                      /\ Len(res.moves) = 7
                      /\ \A k \in 1..Len(res.moves) :
                            /\ res.moves[k].piece.y = 2
                            /\ Abs(res.moves[k].move[1] - res.moves[k].piece.x) = 1
                            /\ Abs(res.moves[k].move[2] - res.moves[k].piece.y) = 1
                            /\ pieceKilledOnBoard(res.moves[k].piece, res.moves[k].move[1],
                                                  res.moves[k].move[2], bv) = Null
        IN  on(View(heap, board))

\* C11 witness: getAllMovesForTeam(board, 1) was called on the board as set up
StartingPositionWitness ==
    /\ plies = 0
    /\ Len(board) = 24
    /\ res.op = "getAllMovesForTeam"
    /\ res.team = 1
    /\ Len(res.moves) = 7

\* C12: a call of getAIMove, for any policy and team, leaves game.board with
\* the same pieces in the same order with the same field values, and leaves
\* playerTurn unchanged.
DispatcherLeavesBoard ==
    res.op = "getAIMove" =>
        /\ View(heap, board) = res.before
        /\ playerTurn = res.turn

\* C12 witness: a searching policy that simulated a capture of the team and
\* returned it
DispatcherLeavesBoardWitness ==
    /\ res.op = "getAIMove"
    /\ res.playerType \in {"minimax", "mcts"}
    /\ res.result \in PerPieceCaptures(View(heap, board), res.team)
    /\ Len(rootCalls(res.playerType, View(heap, board), res.team)) > 1

\* C13: on every board reached from the set-up board by applyMoveOnBoard
\* calls with moves of getAllMovesForTeam, no two pieces share a square, no
\* two pieces share an id, every piece is on the board, and every piece has
\* x = x0 and y = y0.
WellFormedBoard ==
    LET on(bv) ==
            /\ \A i, j \in 1..Len(bv) :
                  i # j => /\ <<bv[i].x, bv[i].y>> # <<bv[j].x, bv[j].y>>
                           /\ bv[i].id # bv[j].id
            /\ \A i \in 1..Len(bv) :
                  /\ OnBoard(bv[i].x, bv[i].y)
                  /\ bv[i].x = bv[i].x0
                  /\ bv[i].y = bv[i].y0
    IN  on(View(heap, board))

\* C13 witness: the set-up board after three moves, the last one a capture
WellFormedBoardWitness ==
    /\ res.op = "played"
    /\ res.captured
    /\ plies = 3
    /\ Len(board) = 23

\* what one step from board b1 to board b2 may do to the pieces
OnlyRemoves(b1, b2, captured) ==
    LET ids(bv) == {bv[i].id : i \in 1..Len(bv)}
        movers == {p \in Range(b2) : \E q \in Range(b1) :
                       q.id = p.id /\ <<q.x, q.y>> # <<p.x, p.y>>}
    IN  /\ Len(b2) <= Len(b1)
        /\ \A j \in 1..Len(b2) :
              \E i \in 1..Len(b1) :
                 /\ b1[i].id = b2[j].id
                 /\ b1[i].team = b2[j].team
                 /\ b1[i].king => b2[j].king
        /\ Cardinality(ids(b1) \ ids(b2)) <= 1
        /\ Len(b1) - Len(b2) = Cardinality(ids(b1) \ ids(b2))
        /\ \A q \in Range(b1) :
              q.id \notin ids(b2) =>
                 /\ movers # {}
                 /\ \A p \in movers : p.team # q.team
        /\ captured => Len(b2) = Len(b1) - 1

\* C14: along any sequence of moves no piece is added to the board, the id
\* and the team of a piece never change, a king stays a king, a captured
\* piece is no longer on the board, and a move removes at most one piece,
\* which is of the team opposing the piece that moved.
MovesOnlyRemove ==
    [][OnlyRemoves(View(heap, board), View(heap', board'),
                   res'.op = "played" /\ res'.captured)]_vars

\* C14 witness: a king has just taken a piece
MovesOnlyRemoveWitness ==
    /\ res.op = "played"
    /\ res.captured
    /\ res.piece.king
    /\ Len(board) >= 1

\* the pieces opposing `piece' that stand strictly between its square and
\* (x, y) on the diagonal of the move
OnPath(piece, x, y, bv) ==
    LET n  == Abs(x - piece.x0)
        sx == IF x > piece.x0 THEN 1 ELSE -1
        sy == IF y > piece.y0 THEN 1 ELSE -1
    IN  {p \in Range(bv) :
            /\ p.team # piece.team
            /\ \E k \in 1..(n - 1) : p.x = piece.x0 + k * sx /\ p.y = piece.y0 + k * sy}

\* C20: for a move of distance greater than 1, in any of the four diagonal
\* directions, pieceKilledOnBoard returns an opposing piece standing
\* strictly between source and destination on the move's diagonal, and none
\* only if no opposing piece stands there; for a move of distance 1 it
\* returns none.  (Fails: the scan always runs along the main diagonal of
\* the square spanned by source and destination.)
KilledOnPath ==
    res.op = "pieceKilledOnBoard" =>
        IF OnPath(res.piece, res.x, res.y, View(heap, board)) = {}
        THEN res.killed = Null
        ELSE res.killed \in OnPath(res.piece, res.x, res.y, View(heap, board))

\* board bv with the home ranks exchanged and every piece's team swapped
Mirror(bv) ==
    [i \in 1..Len(bv) |->
        [bv[i] EXCEPT !.y = 7 - bv[i].y, !.y0 = 7 - bv[i].y0,
                      !.team = Other(bv[i].team)]]

\* C15: evaluateBoard of the mirrored board (y mapped to 7 - y, teams
\* swapped) is the negation of evaluateBoard of the board.  (Fails on boards
\* where a king has a long move along one kind of diagonal.)
MirrorNegates ==
    res.op = "evaluateBoard" =>
        evaluateBoard(Mirror(View(heap, board)), <<>>) = 0 - res.score

\* C16: when movePiece is called with a destination validJump rejects, the
\* piece is back on its committed square (x = x0, y = y0) and nothing else
\* has changed: no piece is removed, no field of another piece changes, and
\* playerTurn and pieceSelected are unchanged.
RejectedMoveSnapsBack ==
    [][(res'.op = "movePiece" /\ ~res'.accepted) =>
          /\ heap' = [heap EXCEPT ![res'.piece].x = heap[res'.piece].x0,
                                  ![res'.piece].y = heap[res'.piece].y0]
          /\ board' = board
          /\ playerTurn' = playerTurn
          /\ pieceSelected' = pieceSelected
          /\ plies' = plies]_vars

\* C16 witness: a rejected release; the piece is still selected and it is
\* still the same side's turn
RejectedMoveSnapsBackWitness ==
    /\ res.op = "movePiece"
    /\ ~res.accepted
    /\ pieceSelected = res.piece
    /\ playerTurn = res.turn
    /\ heap[res.piece].x = heap[res.piece].x0
    /\ heap[res.piece].y = heap[res.piece].y0

\* the sum of f over the AI types
RECURSIVE TotalFrom(_, _)
TotalFrom(f, k) == IF k > Len(AI_TYPES) THEN 0 ELSE f[AI_TYPES[k]] + TotalFrom(f, k + 1)

\* the number of entries of the game log that satisfy Test
Logged(log, Test(_)) == Cardinality({i \in 1..Len(log) : Test(log[i])})

\* the log is that of a round-robin tournament, running or finished:
\* initTournament is the function that empties bracketRounds
RoundRobinLog ==
    /\ tournament.bracketRounds = <<>>
    /\ DOMAIN tournament.tournamentResults = Range(AI_TYPES)

\* C17: in a round-robin tournament every recorded game gives one win and
\* 1 point to the winner and one loss to the loser, or one draw and 0.5
\* points to each side; so the points of all AIs add up to the number of
\* games recorded, total wins equal total losses, and for every AI
\* points = wins + 0.5 * draws and wins + losses + draws = games it played.
\* Points are in halves.
RoundRobinBookkeeping ==
    RoundRobinLog =>
        LET results == tournament.tournamentResults
            log == tournament.tournamentGameLog
            won(ai)   == Logged(log, LAMBDA g : (g.winner = 1 /\ g.p1 = ai)
                                                \/ (g.winner = 2 /\ g.p2 = ai))
            lost(ai)  == Logged(log, LAMBDA g : (g.winner = 1 /\ g.p2 = ai)
                                                \/ (g.winner = 2 /\ g.p1 = ai))
            drew(ai)  == Logged(log, LAMBDA g : g.winner = 0 /\ (g.p1 = ai \/ g.p2 = ai))
            played(ai) == Logged(log, LAMBDA g : g.p1 = ai \/ g.p2 = ai)
        IN  /\ \A ai \in Range(AI_TYPES) :
                  /\ results[ai].wins = won(ai)
                  /\ results[ai].losses = lost(ai)
                  /\ results[ai].draws = drew(ai)
                  /\ results[ai].points = 2 * results[ai].wins + results[ai].draws
                  /\ results[ai].wins + results[ai].losses + results[ai].draws = played(ai)
            /\ TotalFrom([ai \in Range(AI_TYPES) |-> results[ai].points], 1) = 2 * Len(log)
            /\ TotalFrom([ai \in Range(AI_TYPES) |-> results[ai].wins], 1)
                  = TotalFrom([ai \in Range(AI_TYPES) |-> results[ai].losses], 1)

\* C17 witness: a finished round robin, all 56 games recorded, with a draw,
\* a win of team 1 and a win of team 2 among them
RoundRobinBookkeepingWitness ==
    /\ RoundRobinLog
    /\ tournament.tournamentMode = "null"
    /\ Len(tournament.tournamentGameLog) = 56
    /\ \A w \in {0, 1, 2} :
          \E i \in 1..Len(tournament.tournamentGameLog) :
             tournament.tournamentGameLog[i].winner = w

\* the AI that won logged game g, "draw" when nobody did
WinnerOf(g) == IF g.winner = 1 THEN g.p1 ELSE IF g.winner = 2 THEN g.p2 ELSE "draw"

\* the positions in the log of the games of a match; two AIs meet in one
\* match of a bracket only
GamesOf(match, log) ==
    {i \in 1..Len(log) : {log[i].p1, log[i].p2} = {match.player1, match.player2}}

\* how many of the first n games of the match, at log positions S, ai won
WinsIn(S, log, n, ai) ==
    Cardinality({i \in S : /\ Cardinality({j \in S : j <= i}) <= n
                           /\ WinnerOf(log[i]) = ai})

\* the side-1 player of the n-th game of the match
FirstSideIn(S, log, n) ==
    log[CHOOSE i \in S : Cardinality({j \in S : j <= i}) = n].p1

\* what C18 says of one match, S being the log positions of its games
MatchAsPlayed(match, S, log, running) ==
    LET tied == WinsIn(S, log, 2, match.player1) = WinsIn(S, log, 2, match.player2)
        higher(n) == IF WinsIn(S, log, n, match.player1) > WinsIn(S, log, n, match.player2)
                     THEN match.player1 ELSE match.player2
    IN  /\ Cardinality(S) <= 3
        /\ match.status = "pending" => S = {}
        /\ match.status = "active" => Cardinality(S) <= 2
        /\ Cardinality(S) >= 1 => FirstSideIn(S, log, 1) = match.player1
        /\ Cardinality(S) >= 2 => FirstSideIn(S, log, 2) = match.player2
        /\ Cardinality(S) = 3 => tied /\ match.status = "complete"
        /\ (match.status = "active" /\ Cardinality(S) = 2) => tied /\ running
        /\ match.status = "complete" =>
              /\ Cardinality(S) \in {2, 3}
              /\ match.winner \in {match.player1, match.player2}
              /\ IF tied
                 THEN /\ Cardinality(S) = 3
                      /\ WinsIn(S, log, 3, match.player1) # WinsIn(S, log, 3, match.player2)
                            => match.winner = higher(3)
                 ELSE /\ Cardinality(S) = 2
                      /\ match.winner = higher(2)

\* C18: a bracket match plays two games with the players' sides swapped
\* between them; if their win counts differ after the second game the match
\* is complete after two games with the higher count as winner; if they are
\* level, one tiebreaker game is played (it is being played or its timer is
\* pending) and the match is complete after it; no match has more than
\* three games.
BestOfTwoThenTiebreaker ==
    tournament.bracketRounds # <<>> =>
        \A r \in 1..Len(tournament.bracketRounds) :
           \A m \in 1..Len(tournament.bracketRounds[r]) :
              MatchAsPlayed(tournament.bracketRounds[r][m],
                            GamesOf(tournament.bracketRounds[r][m],
                                    tournament.tournamentGameLog),
                            tournament.tournamentGameLog,
                            tournament.tournamentGameActive
                               \/ tournament.timers = <<"runBracketGame">>)

\* C18 witness: a finished bracket in which one match took two games and
\* another took three
BestOfTwoThenTiebreakerWitness ==
    /\ tournament.bracketRounds # <<>>
    /\ tournament.tournamentMode = "null"
    /\ tournament.bracketRounds[3][1].status = "complete"
    /\ \E m \in 1..4 :
          Cardinality(GamesOf(tournament.bracketRounds[1][m],
                              tournament.tournamentGameLog)) = 2
    /\ \E r \in 1..3 :
          \E m \in 1..Len(tournament.bracketRounds[r]) :
             Cardinality(GamesOf(tournament.bracketRounds[r][m],
                                 tournament.tournamentGameLog)) = 3

\* what C19 says of one step of the orchestration
OrchestrationStep ==
    /\ (/\ res'.op \in {"startRoundRobinTournament", "startBracketTournament"}
        /\ tournament.tournamentMode # "null")
          => /\ tournament' = tournament
             /\ UNCHANGED <<heap, board, playerTurn, pieceSelected>>
    /\ (/\ res'.op \in {"startRoundRobinTournament", "startBracketTournament",
                        "runTournamentGame", "runBracketGame", "startNextBracketMatch"}
        /\ tournament' # tournament
        /\ tournament'.tournamentGameActive)
          => /\ ~tournament.tournamentGameActive
             /\ tournament'.timers = <<>>
             /\ heap' = setupGame
             /\ playerTurn' = 1
    /\ (tournament.tournamentMode # "null" /\ tournament'.tournamentMode = "null")
          => /\ res'.op \in {"recordTournamentResult", "startNextBracketMatch"}
             /\ tournament'.player1Type = PLAYER_HUMAN
             /\ tournament'.player2Type = PLAYER_HUMAN
             /\ ~tournament'.tournamentGameActive
             /\ tournament'.timers = <<>>

\* C19: startRoundRobinTournament and startBracketTournament have no effect
\* while tournamentMode is non-null; a game is started only when no game is
\* in progress (the previous game's result was recorded) and nothing else is
\* pending that would start another; and the step that finishes a
\* tournament leaves tournamentMode null and both player types human.
OneGameAtATime == [][OrchestrationStep]_vars

\* C19 witness: startBracketTournament was called while a game of a running
\* round robin with recorded games was in progress
OneGameAtATimeWitness ==
    /\ res.op = "startBracketTournament"
    /\ tournament.tournamentMode = "round_robin"
    /\ tournament.tournamentGameActive
    /\ Len(tournament.tournamentGameLog) >= 2

\* the squares a man may go to by the rules: on the board, diagonal at
\* distance 1 or 2, empty, and at distance 2 over an opposing piece
ManSquares(piece, bv) ==
    {q \in (0..7) \X (0..7) :
        /\ Abs(q[1] - piece.x) = Abs(q[2] - piece.y)
        /\ Abs(q[1] - piece.x) \in {1, 2}
        /\ PieceAt(bv, q[1], q[2]) = Null
        /\ Abs(q[1] - piece.x) = 2 =>
              \E p \in Range(bv) : /\ 2 * p.x = piece.x + q[1]
                                   /\ 2 * p.y = piece.y + q[2]
                                   /\ p.team # piece.team}

\* C21: for a piece that is not a king findAvailableMovesOnBoard returns
\* exactly the destinations that are on the board, diagonal from the piece
\* at distance 1 or 2, empty and, at distance 2, have an opposing piece on
\* the midpoint square, each of them once.
ManDestinations ==
    (res.op = "findAvailableMovesOnBoard" /\ ~res.piece.king) =>
        /\ Range(res.moves) = ManSquares(res.piece, View(heap, board))
        /\ Len(res.moves) = Cardinality(ManSquares(res.piece, View(heap, board)))

\* C21 witness: a man with a one-square move and a jump to choose from, next
\* to a friendly piece it cannot jump
ManDestinationsWitness ==
    /\ res.op = "findAvailableMovesOnBoard"
    /\ ~res.piece.king
    /\ \E m \in Range(res.moves) : Abs(m[1] - res.piece.x) = 1
    /\ \E m \in Range(res.moves) : Abs(m[1] - res.piece.x) = 2
    /\ \E p \in Range(View(heap, board)) :
          /\ p.team = res.piece.team
          /\ Abs(p.x - res.piece.x) = 1
          /\ Abs(p.y - res.piece.y) = 1

\* team w wins from board bv within n plies whatever the other team plays,
\* toMove being the team to move
RECURSIVE ForcedWin(_, _, _, _)
ForcedWin(bv, toMove, w, n) ==
    IF isGameOver(bv).over THEN isGameOver(bv).winner = w
    ELSE IF n = 0 THEN FALSE
    ELSE IF toMove = w
    THEN \E m \in Range(getAllMovesForTeam(bv, toMove)) :
            ForcedWin(applyMove(bv, m.piece, m.move[1], m.move[2]).board,
                      Other(toMove), w, n - 1)
    ELSE \A m \in Range(getAllMovesForTeam(bv, toMove)) :
            ForcedWin(applyMove(bv, m.piece, m.move[1], m.move[2]).board,
                      Other(toMove), w, n - 1)

\* the fewest plies, up to n, in which team w forces a win, -1 if there is
\* no forced win within n plies
Quickest(bv, toMove, w, n) ==
    IF \E k \in 0..n : ForcedWin(bv, toMove, w, k)
    THEN CHOOSE k \in 0..n : /\ ForcedWin(bv, toMove, w, k)
                             /\ \A j \in 0..(k - 1) : ~ForcedWin(bv, toMove, w, j)
    ELSE -1

\* C22: minimax looks for the end of the game before it evaluates a leaf: on
\* a terminal board reached with remaining depth d it returns
\* +(10000 - (maxDepth - d)) if team 1 won and -(10000 - (maxDepth - d)) if
\* team 2 won, also for d = 0; so a search from the root (d = maxDepth)
\* scores a win forced in k plies as 10000 - k in magnitude, the quickest
\* forced win counting.  Scores are in tenths.
QuickerWinsScoreHigher ==
    res.op = "minimax" =>
        LET forced(k1, k2) ==
                /\ k1 >= 0 => res.score = (10000 - k1) * 10
                /\ k2 >= 0 => res.score = -((10000 - k2) * 10)
                /\ (k1 < 0 /\ k2 < 0) =>
                      /\ res.score < (10000 - res.maxDepth) * 10
                      /\ res.score > -((10000 - res.maxDepth) * 10)
        IN  /\ isGameOver(View(heap, board)).over =>
                  res.score = (IF isGameOver(View(heap, board)).winner = 1 THEN 1 ELSE -1)
                              * (10000 - (res.maxDepth - res.depth)) * 10
            /\ res.depth = res.maxDepth =>
                  forced(Quickest(View(heap, board), res.team, 1, res.depth),
                         Quickest(View(heap, board), res.team, 2, res.depth))

\* C22 witness: a search of depth 2 from a board that is not terminal finds
\* the game lost for the side to move two plies on, at a node with no depth
\* left
QuickerWinsScoreHigherWitness ==
    /\ res.op = "minimax"
    /\ res.depth = 2
    /\ res.maxDepth = 2
    /\ ~isGameOver(View(heap, board)).over
    /\ res.score \in {(10000 - 2) * 10, -((10000 - 2) * 10)}

\* the legal moves of the team: its captures when it has one, else its moves
Legal(bv, team) ==
    IF PerPieceCaptures(bv, team) # {} THEN PerPieceCaptures(bv, team)
    ELSE PerPieceMoves(bv, team)

\* root child c has the largest visit count and is the first such child
MostVisitedFirst(nodes, c) ==
    \E i \in 1..Len(nodes[1].children) :
       /\ nodes[1].children[i] = c
       /\ \A j \in 1..Len(nodes[1].children) :
             /\ nodes[nodes[1].children[j]].visits <= nodes[c].visits
             /\ j < i => nodes[nodes[1].children[j]].visits < nodes[c].visits

RECURSIVE PathToRoot(_, _)
PathToRoot(nodes, n) ==
    IF n = 0 THEN {} ELSE {n} \cup PathToRoot(nodes, nodes[n].parent)

\* C24: mctsBackpropagate(node, result, rootTeam) adds 1 to the visit count
\* of every node on the path from node to the root and adds to its win
\* total the result if the team to move at its parent (the root team for
\* the root) is team 1 and 1 - result otherwise; nothing else on the path
\* and no node off the path changes.
BackpropagatesAlongPath ==
    (res.op = "mctsAI" /\ res.node # 0) =>
        /\ Len(res.nodes) = Len(res.grown)
        /\ \A n \in 1..Len(res.grown) :
              IF n \in PathToRoot(res.grown, res.node)
              THEN res.nodes[n] =
                      [res.grown[n] EXCEPT
                          !.visits = @ + 1,
                          !.wins = @ + (IF res.grown[n].parent = 0
                                        THEN (IF res.team = 1 THEN res.result
                                              ELSE 2 - res.result)
                                        ELSE IF res.grown[res.grown[n].parent].team = 1
                                        THEN res.result
                                        ELSE 2 - res.result)]
              ELSE res.nodes[n] = res.grown[n]

\* C24 witness: a won rollout backpropagated from a grandchild of the root,
\* past a node whose parent has team 2 to move, with a node off the path
BackpropagatesAlongPathWitness ==
    /\ res.op = "mctsAI"
    /\ res.node # 0
    /\ res.result = 2
    /\ Cardinality(PathToRoot(res.grown, res.node)) = 3
    /\ Len(res.grown) > 3
    /\ \E n \in PathToRoot(res.grown, res.node) :
          /\ res.grown[n].parent # 0
          /\ res.grown[res.grown[n].parent].team = 2
          /\ res.nodes[n].wins = res.grown[n].wins

\* C25: in the MCTS tree the side to move of every child is the opposite of
\* its parent's, whatever move created the child; so the sides alternate
\* along every path from the root.
SidesAlternate ==
    res.op = "mctsAI" =>
        \A n \in 2..Len(res.nodes) :
           res.nodes[n].team = Other(res.nodes[res.nodes[n].parent].team)

\* C25 witness: a child created by a capture after which the same piece can
\* capture again on the child's board
SidesAlternateWitness ==
    /\ res.op = "mctsAI"
    /\ \E n \in 2..Len(res.nodes) :
          /\ Len(res.nodes[n].board) < Len(res.nodes[res.nodes[n].parent].board)
          /\ \E m \in PerPieceCaptures(res.nodes[n].board,
                                       res.nodes[res.nodes[n].parent].team) :
                m.piece.id = res.nodes[n].piece.id
          /\ res.nodes[n].team = Other(res.nodes[res.nodes[n].parent].team)

\* the value of a rollout that ends on a terminal board, -1 if the board is
\* not terminal, and of one that ends at the cap with the given score
WinnerValue(status) == IF ~status.over THEN -1 ELSE IF status.winner = 1 THEN 2 ELSE 0
SignValue(score) == IF score > 0 THEN 2 ELSE IF score < 0 THEN 0 ELSE 1

\* what holds of a call of mctsSimulate at every point: the cap, the board
\* passed in, the value returned, and a move to choose while the loop runs
RolloutBounded ==
    res.op = "mctsSimulate" =>
        /\ res.i <= res.maxMoves
        /\ View(heap, board) = res.input
        /\ (/\ res.pc = "loop"
            /\ res.i < res.maxMoves
            /\ ~isGameOver(View(heap, res.simBoard)).over) =>
              \A lucky \in BOOLEAN :
                 rolloutChoices(getAllMovesForTeam(View(heap, res.simBoard), res.team),
                                View(heap, res.simBoard), res.team, lucky) # {}
        /\ res.pc = "done" =>
              /\ res.ret \in {0, 1, 2}
              /\ res.i < res.maxMoves =>
                    res.ret = WinnerValue(isGameOver(View(heap, res.simBoard)))
              /\ res.i = res.maxMoves =>
                    res.ret = SignValue(evaluateBoard(View(heap, res.simBoard), <<>>))

\* a step of a running call returns, or applies one move and counts it
RolloutStep ==
    res.op = "mctsSimulate" =>
        /\ res.pc = "loop"
        /\ \/ res'.pc = "done" /\ res'.i = res.i /\ res'.simBoard = res.simBoard
           \/ res'.pc = "loop" /\ res'.i = res.i + 1
              /\ res'.team = Other(res.team)
              /\ Len(res'.simBoard) \in {Len(res.simBoard), Len(res.simBoard) - 1}

\* C26: a call of mctsSimulate returns after at most maxMoves applied moves
\* (every step of its loop returns or applies one move, the count of applied
\* moves never passes maxMoves, and the loop always has a move to apply)
\* with a value out of 0, 0.5 and 1, kept in halves: when it returns before
\* the cap the rollout board is terminal and the value is 1 if team 1 is the
\* winner and 0 otherwise, at the cap the value is 1, 0 or 0.5 by the sign
\* of evaluateBoard on the final board; the board passed in is as it was at
\* the call.
RolloutTerminates == []RolloutBounded /\ [][RolloutStep]_vars

\* C26 witness: a rollout that applied moves and ended on a terminal board
\* before its cap
RolloutTerminatesWitness ==
    /\ res.op = "mctsSimulate"
    /\ res.pc = "done"
    /\ res.i > 0
    /\ res.i < res.maxMoves
    /\ res.ret = 2

\* the largest of a finite set of numbers, 0 for the empty set
Largest(S) == IF S = {} THEN 0 ELSE CHOOSE c \in S : \A d \in S : c >= d

\* the most opposing pieces the piece removes in a sequence of its own moves
\* that starts with the move to (x, y) and goes on, capture after capture,
\* with any move the generator offers it
RECURSIVE LongestChain(_, _, _, _)
LongestChain(bv, piece, x, y) ==
    LET goOn(nb, newPiece) ==
            1 + Largest({LongestChain(nb, newPiece, m[1], m[2]) :
                            m \in Range(findAvailableMovesOnBoard(newPiece, nb))})
        after(result) ==
            IF ~result.captured THEN 0
            ELSE goOn(result.board, Same(result.board, piece))
    IN  after(applyMove(bv, piece, x, y))

\* countChainCaptures's result as the claim describes it, case by case
ChainCases(bv, piece, x, y, depth, count) ==
    LET further(nb, newPiece) ==
            {m \in Range(findAvailableMovesOnBoard(newPiece, nb)) :
                Abs(newPiece.x0 - m[1]) = 2}
        onMoves(nb, newPiece, moves) ==
            IF moves = {} THEN count = depth + 1
            ELSE count = Largest({countChainCaptures(nb, newPiece, m[1], m[2], depth + 1) :
                                     m \in moves})
        after(result) ==
            IF ~result.captured THEN count = depth
            ELSE onMoves(result.board, Same(result.board, piece),
                         further(result.board, Same(result.board, piece)))
    IN  after(applyMove(bv, piece, x, y))

\* C27: countChainCaptures(board, piece, x, y, depth) returns depth when the
\* move is not a capture, depth + 1 when it is a capture with no distance-2
\* continuation from the landing square, and otherwise the maximum of the
\* recursive results over the distance-2 continuations; called with depth 0
\* the result is the largest number of opposing pieces the piece can remove
\* in one uninterrupted sequence starting with that move, and it never
\* exceeds the number of opposing pieces on the board.
ChainCount ==
    res.op = "countChainCaptures" =>
        /\ ChainCases(View(heap, board), res.piece, res.move[1], res.move[2],
                      res.depth, res.count)
        /\ res.depth = 0 =>
              res.count = LongestChain(View(heap, board), res.piece, res.move[1], res.move[2])
        /\ res.count - res.depth
              <= Cardinality({i \in 1..Len(board) : heap[board[i]].team # res.piece.team})

\* the two sides of the k-th game of a round robin over the matchups m: the
\* matchups in order, two games each, the second with the sides exchanged
SidesOf(m, k) ==
    IF k % 2 = 1 THEN <<m[((k - 1) \div 2) + 1][1], m[((k - 1) \div 2) + 1][2]>>
    ELSE <<m[((k - 1) \div 2) + 1][2], m[((k - 1) \div 2) + 1][1]>>

EndCheckOps == { "checkTournamentGameEnd", "checkBracketGameEnd" }
RecordOps == { "recordTournamentResult", "recordBracketResult" }

\* what the rules make of a position at the end check that brings the
\* game's move counter to count: the winner, 0 for a draw, -1 for no outcome
RuledOutcome(bv, turn, count) ==
    IF \A k \in 1..Len(bv) : bv[k].team # 1 THEN 2
    ELSE IF \A k \in 1..Len(bv) : bv[k].team # 2 THEN 1
    ELSE IF Legal(bv, turn) = {} THEN 3 - turn
    ELSE IF count = MAX_TOURNAMENT_MOVES THEN 0
    ELSE -1

\* the move counter of a game stays within the limit, and a game that is
\* logged has one of the three outcomes, a draw only at the limit
GameWithinLimit ==
    /\ tournament.tournamentMoveCount <= MAX_TOURNAMENT_MOVES
    /\ \A k \in 1..Len(tournament.tournamentGameLog) :
          /\ tournament.tournamentGameLog[k].winner \in {0, 1, 2}
          /\ tournament.tournamentGameLog[k].moves \in 1..MAX_TOURNAMENT_MOVES
          /\ tournament.tournamentGameLog[k].winner = 0
                 => tournament.tournamentGameLog[k].moves = MAX_TOURNAMENT_MOVES

\* an end check counts one move and records the outcome the rules give, once;
\* no other step adds to the log
EndCheckStep ==
    IF res'.op \in EndCheckOps \cup RecordOps
    THEN /\ tournament'.tournamentMoveCount = tournament.tournamentMoveCount + 1
         /\ IF RuledOutcome(heap', playerTurn', tournament'.tournamentMoveCount) = -1
            THEN /\ res'.op \in EndCheckOps
                 /\ tournament'.tournamentGameLog = tournament.tournamentGameLog
                 /\ tournament'.tournamentGameActive
            ELSE /\ res'.op \in RecordOps
                 /\ Len(tournament'.tournamentGameLog)
                       = Len(tournament.tournamentGameLog) + 1
                 /\ tournament'.tournamentGameLog[Len(tournament'.tournamentGameLog)].winner
                       = RuledOutcome(heap', playerTurn', tournament'.tournamentMoveCount)
                 /\ ~tournament'.tournamentGameActive
    ELSE \/ tournament'.tournamentGameLog = tournament.tournamentGameLog
         \/ tournament'.tournamentGameLog = <<>>

NoRepeats(l) == \A i, j \in 1..Len(l) : l[i] = l[j] => i = j

\* C31: findAvailableMovesOnBoard lists no destination twice for one piece,
\* man or king.
DestinationsOnce ==
    res.op = "findAvailableMovesOnBoard" => NoRepeats(res.moves)

\* the visit counts of the children of node n, added up
RECURSIVE ChildVisits(_, _, _)
ChildVisits(nodes, n, k) ==
    IF k = 0 THEN 0
    ELSE nodes[nodes[n].children[k]].visits + ChildVisits(nodes, n, k - 1)

\* C32: after every completed iteration of mctsAI the root's visit count is
\* the number of completed iterations and the sum of its children's visit
\* counts; every non-root node that is not terminal has one visit more than
\* its children together; every node has 0 <= wins <= visits (win totals
\* are kept in halves).
TreeStatistics ==
    res.op = "mctsAI" =>
        /\ res.nodes[1].visits = res.i
        /\ res.nodes[1].visits = ChildVisits(res.nodes, 1, Len(res.nodes[1].children))
        /\ \A n \in 2..Len(res.nodes) :
              \/ res.nodes[n].visits
                    = 1 + ChildVisits(res.nodes, n, Len(res.nodes[n].children))
              \/ isTerminal(res.nodes, n)
        /\ \A n \in 1..Len(res.nodes) :
              /\ 0 <= res.nodes[n].wins
              /\ res.nodes[n].wins <= 2 * res.nodes[n].visits

\* C32 witness: after the last iteration of the largest budget the root has
\* two children, one of them visited twice with a child of its own, and a
\* node has a win total strictly between 0 and its visit count
TreeStatisticsWitness ==
    /\ res.op = "mctsAI"
    /\ res.pc = "loop"
    /\ res.i = MaxIterations
    /\ Len(res.nodes[1].children) = 2
    /\ \E n \in 2..Len(res.nodes) :
          /\ res.nodes[n].parent = 1
          /\ res.nodes[n].visits = 2
          /\ Len(res.nodes[n].children) = 1
    /\ \E n \in 1..Len(res.nodes) :
          /\ 0 < res.nodes[n].wins
          /\ res.nodes[n].wins < 2 * res.nodes[n].visits

\* C33: for every node of the MCTS tree whose untried-move list has been
\* initialised, its children and its untried moves together are as many as
\* the legal moves of its side on its board; no two of its children come
\* from the same legal move; and no child of it is visited a second time,
\* which is what selection by UCB1 does, while it has an untried move.
EachMoveTriedOnce ==
    res.op = "mctsAI" =>
        \A n \in 1..Len(res.nodes) :
           res.nodes[n].untriedMoves # <<>> =>
              /\ Len(res.nodes[n].children) + Len(res.nodes[n].untriedMoves[1])
                    = Cardinality(Legal(res.nodes[n].board, res.nodes[n].team))
              /\ \A a, b \in 1..Len(res.nodes[n].children) :
                    (/\ res.nodes[res.nodes[n].children[a]].piece.id
                           = res.nodes[res.nodes[n].children[b]].piece.id
                     /\ res.nodes[res.nodes[n].children[a]].move
                           = res.nodes[res.nodes[n].children[b]].move) => a = b
              /\ \A a \in 1..Len(res.nodes[n].children) :
                    res.nodes[res.nodes[n].children[a]].visits >= 2
                        => Len(res.nodes[n].untriedMoves[1]) = 0

Smallest(S) == IF S = {} THEN 0 ELSE CHOOSE c \in S : \A d \in S : c <= d

\* the boards the side to move can bring about
Replies(bv, team) ==
    {applyMove(bv, m.piece, m.move[1], m.move[2]).board :
        m \in Range(getAllMovesForTeam(bv, team))}

\* minimax to the given depth over every reply of every position, team 1
\* taking the largest value and team 2 the smallest
RECURSIVE Exhaustive(_, _, _, _)
Exhaustive(bv, depth, team, maxDepth) ==
    IF isGameOver(bv).over
    THEN (IF isGameOver(bv).winner = 1 THEN 1 ELSE -1) * (10000 - (maxDepth - depth)) * 10
    ELSE IF depth = 0 THEN evaluateBoard(bv, <<>>)
    ELSE IF team = 1
    THEN Largest({Exhaustive(nb, depth - 1, 2, maxDepth) : nb \in Replies(bv, 1)})
    ELSE Smallest({Exhaustive(nb, depth - 1, 1, maxDepth) : nb \in Replies(bv, 2)})

\* C34: minimax called with alpha = -Infinity and beta = +Infinity, the
\* maximizing flag set exactly when team 1 is to move, returns the value of
\* the exhaustive minimax of the same depth over the same move generator,
\* terminal scoring and evaluator.
CutOffsKeepValue ==
    res.op = "minimax" =>
        res.score = Exhaustive(View(heap, board), res.depth, res.team, res.maxDepth)

\* C34 witness: a search of depth 2 for team 1 in which the replies to a
\* later root move are cut off: one of them, not the last, is worth no more
\* than an earlier root move
CutOffsKeepValueWitness ==
    /\ res.op = "minimax"
    /\ res.depth = 2
    /\ res.team = 1
    /\ ~isGameOver(View(heap, board)).over
    /\ LET moves == captureFirst(getAllMovesForTeam(View(heap, board), 1), View(heap, board))
           after(m) == applyMove(View(heap, board), m.piece, m.move[1], m.move[2]).board
           replies(nb) == captureFirst(getAllMovesForTeam(nb, 2), nb)
       IN  \E i \in 2..Len(moves) :
              /\ ~isGameOver(after(moves[i])).over
              /\ \E j \in 1..(Len(replies(after(moves[i]))) - 1) :
                    \E k \in 1..(i - 1) :
                       Exhaustive(applyMove(after(moves[i]),
                                            replies(after(moves[i]))[j].piece,
                                            replies(after(moves[i]))[j].move[1],
                                            replies(after(moves[i]))[j].move[2]).board,
                                  0, 1, 2)
                          <= Exhaustive(after(moves[k]), 1, 2, 2)

\* C35: whatever the order of draw ticks, timeouts and resets, at most one
\* AI-move timeout is pending, and the executeAIMove of a timeout runs in
\* the game in which the timeout was set.
OneTimerPerGame ==
    /\ Len(tournament.aiTimers) <= 1
    /\ res.op = "executeAIMove" => res.set = res.game

\* C38: in the board applyMoveOnBoard returns, the pieces are those of the
\* input board in the same order, less at most one piece of the other team;
\* every piece but the moved one has the field values it had; the moved
\* piece differs only in x, y, x0, y0, now the destination, and in a king
\* flag that may have turned true.
MoveFrame ==
    res.op = "applyMoveOnBoard" =>
       LET b1 == res.before
           b2 == View(heap, res.board)
           gone == {i \in 1..Len(b1) : \A j \in 1..Len(b2) : b2[j].id # b1[i].id}
           kept == SelectSeq(b1, LAMBDA p : \E j \in 1..Len(b2) : b2[j].id = p.id)
           landed(p) == [p EXCEPT !.x = res.x, !.y = res.y, !.x0 = res.x, !.y0 = res.y]
       IN  /\ Cardinality(gone) <= 1
           /\ \A i \in gone : b1[i].team # res.piece.team
           /\ Len(b2) = Len(kept)
           /\ \A j \in 1..Len(b2) :
                 IF kept[j].id = res.piece.id
                 THEN b2[j] \in {landed(kept[j]), [landed(kept[j]) EXCEPT !.king = TRUE]}
                 ELSE b2[j] = kept[j]

\* a capture that crowns the moved piece on a board with a third piece
MoveFrameWitness ==
    /\ res.op = "applyMoveOnBoard"
    /\ res.captured
    /\ Len(res.before) >= 3
    /\ Len(res.board) = Len(res.before) - 1
    /\ ~res.piece.king
    /\ \E j \in 1..Len(res.board) :
          /\ heap[res.board[j]].id = res.piece.id
          /\ heap[res.board[j]].king
          /\ <<heap[res.board[j]].x, heap[res.board[j]].y>> # <<res.piece.x, res.piece.y>>

\* the matches of the bracket, as <<round, match>> indices
BracketMatches ==
    { rm \in (1..3) \X (1..4) :
         /\ rm[1] <= Len(tournament.bracketRounds)
         /\ rm[2] <= Len(tournament.bracketRounds[rm[1]]) }
MatchAt(rm) == tournament.bracketRounds[rm[1]][rm[2]]

\* C37: every completed bracket match has a winner, one of its two players,
\* whatever the outcomes of its games; a match completed with the two win
\* counts equal (after the tiebreaker) is won by its player1.
CompleteMatchHasWinner ==
    \A rm \in BracketMatches :
       MatchAt(rm).status = "complete" =>
          /\ MatchAt(rm).winner # "null"
          /\ MatchAt(rm).winner \in {MatchAt(rm).player1, MatchAt(rm).player2}
          /\ MatchAt(rm).scores[1] = MatchAt(rm).scores[2] =>
                 MatchAt(rm).winner = MatchAt(rm).player1

\* a match completed by a drawn tiebreaker after one win each, and one
\* completed by three draws
CompleteMatchHasWinnerWitness ==
    /\ res.op = "recordBracketResult"
    /\ res.winner = 0
    /\ \E rm \in BracketMatches :
          /\ MatchAt(rm).status = "complete"
          /\ MatchAt(rm).scores = <<1, 1>>
          /\ MatchAt(rm).winner = MatchAt(rm).player1
          /\ tournament.bracketCurrentGame = 3

\* the bracket has finished: startNextBracketMatch found no match to start
BracketFinished ==
    /\ res.op = "startNextBracketMatch"
    /\ tournament.tournamentMode = "null"
    /\ tournament.bracketRounds # <<>>

\* the matches a player stands in
MatchesOf(player) ==
    {rm \in BracketMatches : player \in {MatchAt(rm).player1, MatchAt(rm).player2}}

\* the bracket in round order: 4, 2 and 1 matches; a match that has started
\* has both its players; the players of a later round's match, once known,
\* are the winners of the two matches that feed it, the even one as
\* player1 and the odd one as player2; a match starts only once the round
\* before it is complete; when the bracket finishes all 7 matches are
\* complete and the winner of the final won every match they stood in
BracketOrder ==
    tournament.bracketRounds # <<>> =>
       /\ [r \in 1..Len(tournament.bracketRounds) |-> Len(tournament.bracketRounds[r])]
             = <<4, 2, 1>>
       /\ Cardinality(BracketMatches) = 7
       /\ \A rm \in BracketMatches :
             /\ MatchAt(rm).status # "pending" =>
                   /\ MatchAt(rm).player1 \in Range(AI_TYPES)
                   /\ MatchAt(rm).player2 \in Range(AI_TYPES)
                   /\ MatchAt(rm).player1 # MatchAt(rm).player2
             /\ rm[1] = 1 => MatchAt(rm).player1 # "null" /\ MatchAt(rm).player2 # "null"
             /\ rm[1] > 1 =>
                   /\ MatchAt(rm).player1 \in
                         {"null", MatchAt(<<rm[1] - 1, 2 * rm[2] - 1>>).winner}
                   /\ MatchAt(rm).player2 \in
                         {"null", MatchAt(<<rm[1] - 1, 2 * rm[2]>>).winner}
                   /\ MatchAt(rm).status # "pending" =>
                         \A before \in BracketMatches :
                            before[1] < rm[1] => MatchAt(before).status = "complete"
       /\ BracketFinished =>
             /\ \A rm \in BracketMatches : MatchAt(rm).status = "complete"
             /\ MatchAt(<<3, 1>>).winner \in Range(AI_TYPES)
             /\ \A rm \in MatchesOf(MatchAt(<<3, 1>>).winner) :
                   MatchAt(rm).winner = MatchAt(<<3, 1>>).winner
             /\ Cardinality(MatchesOf(MatchAt(<<3, 1>>).winner)) = 3
             /\ Len(tournament.tournamentGameLog) \in 14..21

RecordedOnce ==
    res.op \in RecordOps => res.active

====
